---- MODULE Spec2Model ----
(***************************************************************************)
(* Model of the daily economy update of src/src/economy/economy.cpp.       *)
(*                                                                         *)
(* Numbers.  The program computes in float.  The model holds every amount  *)
(* of money, goods, workers and every ratio in fixed point with three      *)
(* decimals: the integer x stands for x / Unit, so 0.001f is 1 and 1.0f is *)
(* Unit.  Products and quotients are rounded toward zero as the operators  *)
(* MulF and DivF say.  NaN and infinity are not represented.               *)
(*                                                                         *)
(* The module holds several specifications, one per part of the update;    *)
(* each leaves the variables of the other parts parked at a fixed value.   *)
(***************************************************************************)
EXTENDS Integers, Sequences, FiniteSets, TLC

VARIABLES
    \* ---- commodities (price engine) ----
    current_price,            \* commodity -> price
    total_production,         \* commodity -> production summed at the last price adjustment
    total_real_demand,        \* commodity -> demand summed at the last price adjustment
    total_consumption,        \* commodity -> consumption summed at the last price adjustment
    global_market_pool,       \* commodity -> world pool
    laborer_needs,            \* commodity -> [life, everyday, luxury] needs of the laborer pop type
    \* ---- nations x commodities (market) ----
    real_demand,              \* nation -> commodity -> demand registered this tick
    domestic_market_pool,     \* nation -> commodity -> domestic pool
    demand_satisfaction,      \* nation -> commodity -> smoothed satisfaction
    \* ---- bookkeeping of the price specification ----
    price_phase,              \* "market": producers register; "price": the adjustment runs
    price_day,                \* price adjustments done so far
    price_step,               \* commodity -> the inputs and the old price of the last adjustment
    prev_step,                \* commodity -> the same for the adjustment before it
    \* ---- market clearing ----
    direct_demand_satisfaction, \* nation -> commodity -> unsmoothed satisfaction
    stockpiles,               \* nation -> commodity -> national stockpile of goods
    drawing_on_stockpiles,    \* nation -> commodity -> BOOLEAN
    imports,                  \* nation -> commodity -> amount taken from the world pool
    tariff_rate,              \* nation -> effective tariff rate
    market_phase,             \* "share", "clear", "end", "produce"
    market_day,               \* days begun so far
    clear_next,               \* position in nations_by_rank of the nation to clear next
    clear_log,                \* nation -> commodity -> the pools, the demand and the price of the day's clearing
    \* ---- national budget ----
    stockpiles_money,         \* nation -> treasury, nation_get_stockpiles(n, economy::money)
    is_debt_spending,         \* nation -> BOOLEAN
    bankrupt_until,           \* nation -> date, 0 when never bankrupt
    timed_modifiers,          \* nation -> expiry dates of in_bankrupcy and bad_debter, 0 when absent
    current_date,             \* state.current_date
    spending_level,           \* nation -> the spending_scale of its last spending step
    effective_prices,         \* nation -> commodity -> price the nation pays
    army_demand,              \* nation -> commodity -> daily need of the army
    navy_demand,              \* nation -> commodity -> daily need of the navy
    construction_projects,    \* nation -> commodity -> daily need of the projects under way
    construction_demand,      \* nation -> commodity -> construction need of this tick
    stockpile_targets,        \* nation -> commodity -> stockpile the nation wants to hold
    overseas_provinces,       \* nation -> owned_province_count - central_province_count
    overseas_spending,        \* nation -> slider, percent
    total_income,             \* nation -> [poor, middle, rich] tax base of the last collection
    savings,                  \* pop -> money held
    inflation,                \* state.inflation
    default_events,           \* set of the default events fired so far
    \* ---- bookkeeping of the budget specification ----
    fiscal_phase,             \* "start", "prices", "spend", "pay", "nation", "diplomatic", "bankruptcy", "end"
    fiscal_day,               \* ticks begun so far
    fiscal_next,              \* position in nations_by_rank of the nation to act next
    spend_log,                \* nation -> what its last spending step saw and did
    paid_log,                 \* nation -> money its pops were paid in the last payment pass
    refund_log,               \* nation -> refunds of its last per-nation update, by category
    bankruptcy_log,           \* nation -> what the last bankruptcy phase saw and did
    \* ---- resource gathering of one land province ----
    rgo_employment_per_good,        \* commodity -> workers employed
    rgo_target_employment_per_good, \* commodity -> workers the operation wants
    rgo_actual_production_per_good, \* commodity -> output of the tick
    subsistence_employment,   \* workers living off subsistence
    rgo_employment,           \* province_get_rgo_employment, the employed share of the capacity
    rgo_raw_employment,       \* [slaves, workers] raw employment of the pops of each kind
    province_demographics,    \* [workers, slaves, total] head counts of the province
    landowners_share,         \* share of the land held by aristocrats
    rgo_size_modifier,        \* commodity -> sum of the size modifiers that apply to it
    \* ---- bookkeeping of the rgo specification ----
    rgo_phase,                \* "employment", "consumption", "province"
    rgo_day,                  \* ticks begun so far
    rgo_log,                  \* what the last employment update saw
    \* ---- one factory of nation 1 ----
    factory,                  \* the fields of the factory object
    intermediate_demand,      \* nation -> commodity -> demand of producers this tick
    gdp,                      \* nation -> running gdp of the tick
    \* ---- bookkeeping of the factory specification ----
    factory_phase,            \* "start", "consumption", "market"
    factory_day,              \* ticks begun so far
    factory_log,              \* what the last consumption update saw
    \* ---- the per-nation parallel loop of daily_update ----
    initiate_buildings,       \* the argument of daily_update, FALSE during presimulation
    task,                     \* nation -> position of its task of the parallel loop and its local values
    demand_by_category,       \* commodity -> demand registered for construction, shared by every nation
    emulated_demand,          \* nation -> commodity -> real demand its task registered
    access_log,               \* the memory accesses made so far, [task, loc, kind]
    \* ---- construction projects of nation 1 ----
    constructions,            \* project id -> the construction object, its purchased-goods ledger and whether it still exists
    province_building_level,  \* level of the building the province project builds
    factories,                \* the levels of the factories of the project type in the state
    units_built,              \* [regiments, ships] created by finished projects
    construction_day,         \* ticks done so far
    nation_administrative_efficiency, \* per nation, as the construction code reads it
    resolve_log,              \* what the last resolve_constructions saw
    \* ---- factory subsidies and diplomatic expenses ----
    nation_factories,         \* nation -> its factories, [actual_production, full_profit, level, primary_employment, subsidized]
    subsidies_spending,       \* nation -> subsidies paid this tick
    unilateral_relationship,  \* the relationships, [source, target, war_subsidies, reparations]
    reparations_until,        \* nation -> date its reparations end
    treasury_log,             \* nation -> what the treasury steps of the tick saw and did
    \* ---- pop consumption of nation 1 ----
    nation_pops,              \* the pops of nation 1, [poptype, savings, size, life_needs, everyday_needs, luxury_needs]
    needs_costs,              \* pop type -> [life, everyday, luxury] needs costs of nation 1
    nation_allows_investment, \* nation 1 is civilized and its rules let pops build or expand factories
    province_subsistence,     \* [life, everyday, luxury] shares of the needs the province covers by subsistence
    private_investment,       \* nation_get_private_investment of nation 1
    consumption_day,          \* ticks done so far
    consumption_log,          \* pop -> what the last update_pop_consumption computed for it
    \* ---- factory employment of a state ----
    state_factories,          \* the factories of one state, by index
    state_worker_pools,       \* primary and secondary factory workers of the state
    employment_day,           \* employment updates done so far
    employment_log,           \* the buckets the last update_factory_employment served
    \* ---- factories and factory projects of a state ----
    state_factory_types,      \* the building types of the factories standing in one state
    state_building_construction, \* per building type, the factory project of the state: "none", "new" or "upgrade"
    count_log                 \* the last operation on the factories of the state

\* the commodity tables, the per-nation market tables, the price bookkeeping
commodityVars == <<current_price, total_production, total_real_demand, total_consumption,
                   laborer_needs>>
poolVars == <<global_market_pool, real_demand, domestic_market_pool, demand_satisfaction>>
priceBook == <<price_phase, price_day, price_step, prev_step>>
marketVars == <<direct_demand_satisfaction, stockpiles, drawing_on_stockpiles, imports,
                tariff_rate, market_phase, market_day, clear_next, clear_log>>

budgetVars == <<stockpiles_money, is_debt_spending, bankrupt_until, timed_modifiers,
                current_date, spending_level, effective_prices, army_demand, navy_demand,
                construction_projects, construction_demand, stockpile_targets,
                overseas_provinces, overseas_spending, total_income, savings, inflation,
                default_events>>
fiscalBook == <<fiscal_phase, fiscal_day, fiscal_next, spend_log, paid_log, refund_log,
                bankruptcy_log>>

rgoVars == <<rgo_employment_per_good, rgo_target_employment_per_good,
             rgo_actual_production_per_good, subsistence_employment, rgo_employment,
             rgo_raw_employment, province_demographics, landowners_share,
             rgo_size_modifier>>
rgoBook == <<rgo_phase, rgo_day, rgo_log>>
factoryVars == <<factory, intermediate_demand, gdp>>
factoryBook == <<factory_phase, factory_day, factory_log>>

parallelVars == <<initiate_buildings, task, demand_by_category, emulated_demand, access_log>>

constructionVars == <<constructions, province_building_level, factories, units_built, construction_day,
                      nation_administrative_efficiency, resolve_log>>

treasuryVars == <<nation_factories, subsidies_spending, unilateral_relationship, reparations_until, treasury_log>>

consumptionVars == <<nation_pops, needs_costs, nation_allows_investment, province_subsistence, private_investment, consumption_day, consumption_log>>

employmentVars == <<state_factories, state_worker_pools, employment_day, employment_log>>

countVars == <<state_factory_types, state_building_construction, count_log>>

vars == <<commodityVars, poolVars, priceBook, marketVars, budgetVars, fiscalBook,
          rgoVars, rgoBook, factoryVars, factoryBook,
    parallelVars,
    constructionVars,
    treasuryVars,
    consumptionVars,
    employmentVars,
    countVars>>

\* what each specification leaves alone
notPrice == <<marketVars, budgetVars, fiscalBook, rgoVars, rgoBook, factoryVars, factoryBook,
    parallelVars,
    constructionVars,
    treasuryVars,
    consumptionVars,
    employmentVars,
    countVars>>
notMarket == <<commodityVars, priceBook, budgetVars, fiscalBook, rgoVars, rgoBook,
               factoryVars, factoryBook,
    parallelVars,
    constructionVars,
    treasuryVars,
    consumptionVars,
    employmentVars,
    countVars>>
notFiscal == <<commodityVars, priceBook, global_market_pool, real_demand,
               domestic_market_pool, drawing_on_stockpiles, imports, tariff_rate,
               market_phase, market_day, clear_next, clear_log, rgoVars, rgoBook,
               factoryVars, factoryBook,
    parallelVars,
    constructionVars,
    consumptionVars,
    employmentVars,
    countVars>>
notRgo == <<commodityVars, poolVars, priceBook, marketVars, budgetVars, fiscalBook,
            factoryVars, factoryBook,
    parallelVars,
    constructionVars,
    treasuryVars,
    consumptionVars,
    employmentVars,
    countVars>>
notFactory == <<current_price, total_production, total_real_demand, total_consumption,
                laborer_needs, global_market_pool, domestic_market_pool, priceBook,
                marketVars, budgetVars, fiscalBook, rgoVars, rgoBook,
    parallelVars,
    constructionVars,
    treasuryVars,
    consumptionVars,
    employmentVars,
    countVars>>
notParallel == <<commodityVars, poolVars, priceBook, marketVars, budgetVars, fiscalBook,
    rgoVars, rgoBook, factoryVars, factoryBook,
    constructionVars,
    treasuryVars,
    consumptionVars,
    employmentVars,
    countVars>>
notConstruction == <<commodityVars, poolVars, priceBook, marketVars, budgetVars,
    fiscalBook, rgoVars, rgoBook, factoryVars, factoryBook, parallelVars,
    treasuryVars,
    consumptionVars,
    employmentVars,
    countVars>>
notConsumption == <<commodityVars, poolVars, priceBook, marketVars, budgetVars,
    fiscalBook, rgoVars, rgoBook, factoryVars, factoryBook, parallelVars, constructionVars,
    treasuryVars,
    employmentVars,
    countVars>>
notEmployment == <<commodityVars, poolVars, priceBook, marketVars, budgetVars,
    fiscalBook, rgoVars, rgoBook, factoryVars, factoryBook, parallelVars, constructionVars,
    treasuryVars, consumptionVars,
    countVars>>
notCount == <<commodityVars, poolVars, priceBook, marketVars, budgetVars, fiscalBook,
    rgoVars, rgoBook, factoryVars, factoryBook, parallelVars, constructionVars,
    treasuryVars, consumptionVars, employmentVars>>

-----------------------------------------------------------------------------
(* Fixed point *)

Unit == 1000

Abs(x) == IF x < 0 THEN -x ELSE x
Min(a, b) == IF a < b THEN a ELSE b
Max(a, b) == IF a > b THEN a ELSE b

\* std::clamp(v, lo, hi)
Clamp(v, lo, hi) == IF v < lo THEN lo ELSE IF hi < v THEN hi ELSE v

\* integer quotient rounded toward zero, as a float quotient cut to the grid
QuotT(a, b) == IF a >= 0 THEN a \div b ELSE -((-a) \div b)

\* a * b and a / b of two fixed-point numbers
MulF(a, b) == QuotT(a * b, Unit)
DivF(a, b) == QuotT(a * Unit, b)

RECURSIVE ISqrtIn(_, _, _)
ISqrtIn(n, lo, hi) ==
    IF lo >= hi THEN lo
    ELSE LET mid == (lo + hi + 1) \div 2
         IN  IF mid * mid <= n THEN ISqrtIn(n, mid, hi) ELSE ISqrtIn(n, lo, mid - 1)

\* floor of the square root of a natural number below 10^9
ISqrt(n) == ISqrtIn(n, 0, 31622)

\* math::sqrt of a fixed-point number, to two decimals
SqrtF(x) == ISqrt(x * 10) * 10

-----------------------------------------------------------------------------
(* Entities *)

Nations == 1 .. 2
\* commodity 1 is a money (gold) commodity, commodity 2 an ordinary good
Commodities == 1 .. 2
money_rgo(c) == c = 1
is_available_from_start(c) == TRUE

SumOver(S, F(_)) ==
    LET RECURSIVE Go(_)
        Go(T) == IF T = {} THEN 0
                 ELSE LET x == CHOOSE y \in T : TRUE IN F(x) + Go(T \ {x})
    IN  Go(S)

-----------------------------------------------------------------------------
(* The resting values a specification gives to the variables of the other parts *)

MarketParked ==
    /\ direct_demand_satisfaction = [n \in Nations |-> [c \in Commodities |-> 0]]
    /\ stockpiles = [n \in Nations |-> [c \in Commodities |-> 0]]
    /\ drawing_on_stockpiles = [n \in Nations |-> [c \in Commodities |-> FALSE]]
    /\ imports = [n \in Nations |-> [c \in Commodities |-> 0]]
    /\ tariff_rate = [n \in Nations |-> 0]
    /\ market_phase = "parked"
    /\ market_day = 0
    /\ clear_next = 0
    /\ clear_log = <<>>

FiscalParked ==
    /\ stockpiles_money = [n \in Nations |-> 0]
    /\ is_debt_spending = [n \in Nations |-> FALSE]
    /\ bankrupt_until = [n \in Nations |-> 0]
    /\ timed_modifiers = [n \in Nations |-> [in_bankrupcy |-> 0, bad_debter |-> 0]]
    /\ current_date = 0
    /\ spending_level = [n \in Nations |-> Unit]
    /\ effective_prices = [n \in Nations |-> [c \in Commodities |-> Unit]]
    /\ army_demand = [n \in Nations |-> [c \in Commodities |-> 0]]
    /\ navy_demand = [n \in Nations |-> [c \in Commodities |-> 0]]
    /\ construction_projects = [n \in Nations |-> [c \in Commodities |-> 0]]
    /\ construction_demand = [n \in Nations |-> [c \in Commodities |-> 0]]
    /\ stockpile_targets = [n \in Nations |-> [c \in Commodities |-> 0]]
    /\ overseas_provinces = [n \in Nations |-> 0]
    /\ overseas_spending = [n \in Nations |-> 100]
    /\ total_income = [n \in Nations |-> [poor |-> 0, middle |-> 0, rich |-> 0]]
    /\ savings = <<>>
    /\ inflation = Unit
    /\ default_events = {}
    /\ fiscal_phase = "parked"
    /\ fiscal_day = 0
    /\ fiscal_next = 0
    /\ spend_log = <<>>
    /\ paid_log = <<>>
    /\ refund_log = <<>>
    /\ bankruptcy_log = <<>>

RgoParked ==
    /\ rgo_employment_per_good = [c \in Commodities |-> 0]
    /\ rgo_target_employment_per_good = [c \in Commodities |-> 0]
    /\ rgo_actual_production_per_good = [c \in Commodities |-> 0]
    /\ subsistence_employment = 0
    /\ rgo_employment = 0
    /\ rgo_raw_employment = [slaves |-> 0, workers |-> 0]
    /\ province_demographics = [workers |-> 0, slaves |-> 0, total |-> 0]
    /\ landowners_share = 0
    /\ rgo_size_modifier = [c \in Commodities |-> 0]
    /\ rgo_phase = "parked"
    /\ rgo_day = 0
    /\ rgo_log = <<>>

FactoryParked ==
    /\ factory = <<>>
    /\ intermediate_demand = [n \in Nations |-> [c \in Commodities |-> 0]]
    /\ gdp = [n \in Nations |-> 0]
    /\ factory_phase = "parked"
    /\ factory_day = 0
    /\ factory_log = <<>>

PriceParked ==
    /\ current_price = [c \in Commodities |-> Unit]
    /\ total_production = [c \in Commodities |-> 0]
    /\ total_real_demand = [c \in Commodities |-> 0]
    /\ total_consumption = [c \in Commodities |-> 0]
    /\ laborer_needs = [c \in Commodities |-> [life |-> 0, everyday |-> 0, luxury |-> 0]]
    /\ price_phase = "parked"
    /\ price_day = 0
    /\ price_step = <<>>
    /\ prev_step = <<>>

CountParked ==
    /\ state_factory_types = {}
    /\ state_building_construction = <<>>
    /\ count_log = <<>>

EmploymentParked ==
    /\ state_factories = <<>>
    /\ state_worker_pools = <<>>
    /\ employment_day = 0
    /\ employment_log = <<>>

ConsumptionParked ==
    /\ nation_pops = <<>>
    /\ needs_costs = <<>>
    /\ nation_allows_investment = FALSE
    /\ province_subsistence = <<>>
    /\ private_investment = 0
    /\ consumption_day = 0
    /\ consumption_log = <<>>

TreasuryParked ==
    /\ nation_factories = <<>>
    /\ subsidies_spending = <<>>
    /\ unilateral_relationship = <<>>
    /\ reparations_until = <<>>
    /\ treasury_log = <<>>

ConstructionParked ==
    /\ constructions = <<>>
    /\ province_building_level = 0
    /\ factories = <<>>
    /\ units_built = [regiments |-> 0, ships |-> 0]
    /\ construction_day = 0
    /\ nation_administrative_efficiency = <<>>
    /\ resolve_log = <<>>

ParallelParked ==
    /\ initiate_buildings = TRUE
    /\ task = <<>>
    /\ demand_by_category = [c \in Commodities |-> 0]
    /\ emulated_demand = [n \in Nations |-> [c \in Commodities |-> 0]]
    /\ access_log = {}

-----------------------------------------------------------------------------
(* Price adjustment: daily_update, "adjust prices based on global production & *)
(* consumption"                                                               *)

MinPrice == 1
MaxPrice == 100000000

\* state.defines.base_goods_demand and the alice_*_needs_scale defines, taken as 1
base_goods_demand == 1
alice_lf_needs_scale == 1
alice_ev_needs_scale == 1
alice_lx_needs_scale == 1

\* what one commodity adds to luxury_costs_laborer
LaborerCostOf(c) ==
    IF is_available_from_start(c)
    THEN LET price == current_price[c]
             base_life == laborer_needs[c].life
             base_everyday == laborer_needs[c].everyday
             base_luxury == laborer_needs[c].luxury
         IN  base_life * base_goods_demand * alice_lf_needs_scale * price
             + QuotT(base_everyday * base_goods_demand * alice_ev_needs_scale * price, 2)
             + QuotT(base_luxury * base_goods_demand * alice_lx_needs_scale * price, 10)
    ELSE 0

luxury_costs_laborer == SumOver(Commodities, LaborerCostOf)

ClampPriceNoCeiling(p) == Max(p, MinPrice)

\* std::clamp(p, 0.001f, 100000.0f)
ClampPrice(p) == Clamp(p, MinPrice, MaxPrice)

\* the price of a money commodity: 0.3 of the laborer basket
MoneyPrice == ClampPrice(QuotT(luxury_costs_laborer, 10) * 3)

SpeedModifierNoBaseline(supply, demand) ==
    LET max_slope == SqrtF(Abs(demand - supply)) + 20 * Unit
    IN  Clamp(DivF(demand + 1, supply + 1), 0, max_slope)
        - Clamp(DivF(supply + 1, demand + 1) - Unit, 0, max_slope)

\* speed_modifer = overdemand_factor - oversupply_factor
SpeedModifier(supply, demand) ==
    LET market_balance == demand - supply
        max_slope == SqrtF(Abs(market_balance)) + 20 * Unit
        oversupply_factor == Clamp(DivF(supply + 1, demand + 1) - Unit, 0, max_slope)
        overdemand_factor == Clamp(DivF(demand + 1, supply + 1) - Unit, 0, max_slope)
    IN  overdemand_factor - oversupply_factor

ScaleSpeedInverse(price_speed, price) ==
    IF price < Unit THEN MulF(price_speed, price) ELSE DivF(price_speed, SqrtF(price))

\* price_speed *= current_price below 1, *= sqrt(current_price) from 1 on
ScaleSpeed(price_speed, price) ==
    IF price < Unit THEN MulF(price_speed, price) ELSE MulF(price_speed, SqrtF(price))

\* 0.05f * speed_modifer, scaled by the price
PriceSpeed(price, supply, demand) ==
    ScaleSpeed(QuotT(SpeedModifier(supply, demand), 20), price)

\* the new price of an ordinary commodity
GoodsPrice(price, supply, demand) == ClampPrice(price + PriceSpeed(price, supply, demand))

\* supply = prior_production + global_market_pool / 12
SupplyOf(c) == total_production[c] + QuotT(global_market_pool[c], 12)
DemandOf(c) == SumOver(Nations, LAMBDA n : real_demand[n][c])

\* The whole phase: money commodities first, then every other commodity.
PriceAdjust ==
    /\ price_phase = "price"
    /\ current_price' =
           [c \in Commodities |->
               IF money_rgo(c) THEN MoneyPrice
               ELSE GoodsPrice(current_price[c], SupplyOf(c), DemandOf(c))]
    /\ total_consumption' =
           [c \in Commodities |->
               IF money_rgo(c) THEN total_consumption[c]
               ELSE SumOver(Nations, LAMBDA n : MulF(real_demand[n][c], demand_satisfaction[n][c]))]
    /\ total_real_demand' =
           [c \in Commodities |-> IF money_rgo(c) THEN total_real_demand[c] ELSE DemandOf(c)]
    /\ total_production' =
           [c \in Commodities |->
               IF money_rgo(c) THEN total_production[c]
               ELSE SumOver(Nations, LAMBDA n : domestic_market_pool[n][c])]
    /\ price_step' = [c \in Commodities |->
                         [old |-> current_price[c], supply |-> SupplyOf(c), demand |-> DemandOf(c),
                          basket |-> luxury_costs_laborer]]
    /\ prev_step' = price_step
    /\ price_day' = price_day + 1
    /\ price_phase' = "market"
    /\ UNCHANGED <<global_market_pool, laborer_needs, real_demand, domestic_market_pool,
                   demand_satisfaction, notPrice>>

-----------------------------------------------------------------------------
(* The price specification: between two adjustments the nations register    *)
(* demand and production for the ordinary good.                             *)

MaxPriceDays == 2
Qty == 50000

PriceSamples == {MinPrice, 400, Unit, 2500, MaxPrice}
NeedSamples == {[life |-> 0, everyday |-> 0, luxury |-> 0],
                [life |-> 1, everyday |-> 1, luxury |-> 2],
                [life |-> 4, everyday |-> 0, luxury |-> 0]}
NoStep == [old |-> 0, supply |-> 0, demand |-> 0, basket |-> 0]

PriceInit ==
    /\ MarketParked
    /\ FiscalParked
    /\ RgoParked
    /\ FactoryParked
    /\ ParallelParked
    /\ ConstructionParked
    /\ TreasuryParked
    /\ ConsumptionParked
    /\ EmploymentParked
    /\ CountParked
    /\ current_price \in [Commodities -> PriceSamples]
    /\ current_price[1] = Unit
    /\ total_production \in [Commodities -> {0, Qty}]
    /\ total_production[1] = 0
    /\ total_real_demand = [c \in Commodities |-> 0]
    /\ total_consumption = [c \in Commodities |-> 0]
    /\ global_market_pool \in [Commodities -> {0, 12 * Qty}]
    /\ global_market_pool[1] = 0
    /\ laborer_needs \in [Commodities -> NeedSamples]
    /\ laborer_needs[1] = [life |-> 0, everyday |-> 0, luxury |-> 0]
    /\ real_demand = [n \in Nations |-> [c \in Commodities |-> 0]]
    /\ domestic_market_pool = [n \in Nations |-> [c \in Commodities |-> 0]]
    /\ demand_satisfaction = [n \in Nations |-> [c \in Commodities |-> Unit]]
    /\ price_phase = "market"
    /\ price_day = 0
    /\ price_step = [c \in Commodities |-> NoStep]
    /\ prev_step = [c \in Commodities |-> NoStep]

\* register_demand and register_domestic_supply of the tick, for the ordinary good
RegisterMarket ==
    /\ price_phase = "market"
    /\ price_day < MaxPriceDays
    /\ \E d \in [Nations -> {0, Qty}], s \in [Nations -> {0, Qty}] :
          /\ real_demand' = [n \in Nations |-> [real_demand[n] EXCEPT ![2] = d[n]]]
          /\ domestic_market_pool' = [n \in Nations |-> [domestic_market_pool[n] EXCEPT ![2] = s[n]]]
    /\ price_phase' = "price"
    /\ UNCHANGED <<current_price, total_production, total_real_demand, total_consumption,
                   global_market_pool, laborer_needs, demand_satisfaction, price_day,
                   price_step, prev_step, notPrice>>

PriceNext == RegisterMarket \/ PriceAdjust

SpecPrice == PriceInit /\ [][PriceNext]_vars

-----------------------------------------------------------------------------
(* Claims about the price adjustment *)

\* C1: after every price adjustment every commodity's current_price, of a money
\* commodity and of an ordinary one, lies in [0.001, 100000].
C1_PriceInRange ==
    \A c \in Commodities : MinPrice <= current_price[c] /\ current_price[c] <= MaxPrice

\* C1 witness: an adjustment ran in which the laborer basket put the money price
\* above the ceiling and excess demand pushed an ordinary good at the ceiling up.
C1_Witness ==
    /\ price_day > 0
    /\ QuotT(price_step[1].basket, 10) * 3 > MaxPrice
    /\ current_price[1] = MaxPrice
    /\ price_step[2].old = MaxPrice
    /\ price_step[2].demand > price_step[2].supply
    /\ current_price[2] = MaxPrice

\* C8: an ordinary commodity whose total real demand and supply are both 0 keeps
\* its price through the adjustment.
C8_NoMarketNoChange ==
    \A c \in Commodities :
        (/\ price_day > 0
         /\ ~money_rgo(c)
         /\ price_step[c].demand = 0
         /\ price_step[c].supply = 0) => current_price[c] = price_step[c].old

\* C8 witness: an adjustment ran with demand 0 and supply 0 at a price of 2.5.
C8_Witness ==
    /\ price_day > 0
    /\ price_step[2].demand = 0
    /\ price_step[2].supply = 0
    /\ price_step[2].old = 2500
    /\ current_price[2] = 2500

\* two adjustments in a row saw the same supply and the same demand for c
SameInputs(c) ==
    /\ price_day >= 2
    /\ ~money_rgo(c)
    /\ price_step[c].supply = prev_step[c].supply
    /\ price_step[c].demand = prev_step[c].demand

LastDelta(c) == current_price[c] - price_step[c].old
DeltaBefore(c) == price_step[c].old - prev_step[c].old

\* C9 as stated: with supply and demand held constant the price changes
\* |p(t+1) - p(t)| of an ordinary commodity never grow from one tick to the next.
C9_DeltaNeverGrows ==
    \A c \in Commodities : SameInputs(c) => Abs(LastDelta(c)) <= Abs(DeltaBefore(c))

\* C9 amended: with supply and demand held constant the price moves in one
\* direction only; when supply is at least demand the changes never grow (the
\* price falls toward the floor), and when demand exceeds supply they never
\* shrink until the price stands at the ceiling.
C9_DeltaByDirection ==
    \A c \in Commodities :
        SameInputs(c) =>
            IF price_step[c].supply >= price_step[c].demand
            THEN /\ LastDelta(c) <= 0
                 /\ DeltaBefore(c) <= 0
                 /\ Abs(LastDelta(c)) <= Abs(DeltaBefore(c))
            ELSE /\ LastDelta(c) >= 0
                 /\ DeltaBefore(c) >= 0
                 /\ (LastDelta(c) >= DeltaBefore(c) \/ current_price[c] = MaxPrice)

\* C9 witness: two adjustments with the same excess supply, both lowering the price.
C9_Witness ==
    /\ SameInputs(2)
    /\ price_step[2].supply > price_step[2].demand
    /\ DeltaBefore(2) < 0
    /\ LastDelta(2) < 0
    /\ Abs(LastDelta(2)) < Abs(DeltaBefore(2))

-----------------------------------------------------------------------------
(* Market clearing: sphere sharing, the per-nation purchase from the pools,   *)
(* and the move of what is left to the world pool                             *)

nations_by_rank == <<1, 2>>
\* nation 2 is in the sphere of nation 1; 0 is the null nation
in_sphere_of(n) == IF n = 2 THEN 1 ELSE 0
sphere_leader_share_factor(sl, n) == Unit \div 2
central_ports(n) == n - 1
central_blockaded(n) == 0
\* state.defines.alice_sat_delay_factor
alice_sat_delay_factor == 500

global_market_price_multiplier(n) ==
    IF central_ports(n) > 0
    THEN tariff_rate[n] + DivF(central_blockaded(n) * Unit, central_ports(n) * Unit) + Unit
    ELSE tariff_rate[n] + Unit

\* the multiplier charged on the domestic share when the global pool is preferred
populate_effective_prices_on_rest(n, c) ==
    LET global_price_multiplier == global_market_price_multiplier(n)
        sl == in_sphere_of(n)
        domestic_supply ==
            domestic_market_pool[n][c] + (IF sl # 0 THEN domestic_market_pool[sl][c] ELSE 0)
            + (IF drawing_on_stockpiles[n][c] THEN stockpiles[n][c] ELSE 0)
        global_supply == global_market_pool[c]
        last_demand == real_demand[n][c]
        base_price == current_price[c]
        domestic_blend(domestic_satisfiable_fraction) ==
            MulF(base_price, domestic_satisfiable_fraction)
            + MulF(MulF(base_price, Unit - domestic_satisfiable_fraction), global_price_multiplier)
        global_blend(global_satisfiable_fraction) ==
            MulF(base_price, global_satisfiable_fraction)
            + MulF(MulF(base_price, Unit - global_satisfiable_fraction), global_price_multiplier)
    IN  IF global_price_multiplier >= Unit
        THEN IF last_demand <= domestic_supply THEN base_price
             ELSE IF last_demand <= domestic_supply + global_supply
             THEN domestic_blend(DivF(domestic_supply, last_demand))
             ELSE IF domestic_supply + global_supply > 0
             THEN domestic_blend(DivF(domestic_supply, domestic_supply + global_supply))
             ELSE MulF(base_price, global_price_multiplier)
        ELSE IF last_demand <= global_supply THEN base_price
             ELSE IF last_demand <= domestic_supply + global_supply
             THEN global_blend(DivF(global_supply, last_demand))
             ELSE IF domestic_supply + global_supply > 0
             THEN global_blend(DivF(global_supply, domestic_supply + global_supply))
             ELSE base_price

\* the price a nation expects to pay for c, from the previous day's real demand
populate_effective_prices(n, c) ==
    LET global_price_multiplier == global_market_price_multiplier(n)
        sl == in_sphere_of(n)
        domestic_supply ==
            domestic_market_pool[n][c] + (IF sl # 0 THEN domestic_market_pool[sl][c] ELSE 0)
            + (IF drawing_on_stockpiles[n][c] THEN stockpiles[n][c] ELSE 0)
        global_supply == global_market_pool[c]
        last_demand == real_demand[n][c]
        base_price == current_price[c]
        domestic_blend(domestic_satisfiable_fraction) ==
            MulF(base_price, domestic_satisfiable_fraction)
            + MulF(MulF(base_price, Unit - domestic_satisfiable_fraction), global_price_multiplier)
        global_blend(global_satisfiable_fraction) ==
            MulF(MulF(base_price, global_satisfiable_fraction), global_price_multiplier)
            + MulF(base_price, Unit - global_satisfiable_fraction)
    IN  IF global_price_multiplier >= Unit
        THEN IF last_demand <= domestic_supply THEN base_price
             ELSE IF last_demand <= domestic_supply + global_supply
             THEN domestic_blend(DivF(domestic_supply, last_demand))
             ELSE IF domestic_supply + global_supply > 0
             THEN domestic_blend(DivF(domestic_supply, domestic_supply + global_supply))
             ELSE MulF(base_price, global_price_multiplier)
        ELSE IF last_demand <= global_supply THEN base_price
             ELSE IF last_demand <= domestic_supply + global_supply
             THEN global_blend(DivF(global_supply, last_demand))
             ELSE IF domestic_supply + global_supply > 0
             THEN global_blend(DivF(global_supply, domestic_supply + global_supply))
             ELSE base_price

\* the two sphere loops in the other order: every member's pool is cut to
\* (1 - share) before its leader absorbs from it
PoolAfterGivingFirst(n, c) ==
    LET given(t) == IF in_sphere_of(t) # 0
                    THEN MulF(domestic_market_pool[t][c],
                              Unit - sphere_leader_share_factor(in_sphere_of(t), t))
                    ELSE domestic_market_pool[t][c]
        absorbed == SumOver({t \in Nations : in_sphere_of(t) = n},
                            LAMBDA t : MulF(sphere_leader_share_factor(n, t), given(t)))
    IN  given(n) + absorbed

\* absorb_sphere_member_production for every nation, then give_sphere_leader_production
PoolAfterSharing(n, c) ==
    LET absorbed == SumOver({t \in Nations : in_sphere_of(t) = n},
                            LAMBDA t : MulF(sphere_leader_share_factor(n, t), domestic_market_pool[t][c]))
        own == domestic_market_pool[n][c] + absorbed
    IN  IF in_sphere_of(n) # 0
        THEN MulF(own, Unit - sphere_leader_share_factor(in_sphere_of(n), n))
        ELSE own

\* the pools a nation's clearing of c reads
PoolsSeen(n, c, rd) ==
    LET sl == in_sphere_of(n)
    IN  [dom_pool |-> domestic_market_pool[n][c],
         sl_pool |-> IF sl # 0 THEN domestic_market_pool[sl][c] ELSE 0,
         sp_pool |-> IF drawing_on_stockpiles[n][c] THEN stockpiles[n][c] ELSE 0,
         wm_pool |-> global_market_pool[c],
         rd |-> rd,
         prefer_domestic |-> global_market_price_multiplier(n) >= Unit]

\* the purchase, domestic first, with the pools not floored at 0
TakeDomesticFirstUnfloored(n, c, p) ==
    LET sl == in_sphere_of(n)
        rd1 == Max(p.rd - p.dom_pool, 0)
        rd2 == IF sl # 0 THEN Max(rd1 - p.sl_pool, 0) ELSE rd1
        rd3 == IF drawing_on_stockpiles[n][c] THEN Max(rd2 - p.sp_pool, 0) ELSE rd2
    IN  [dom |-> p.dom_pool - p.rd,
         sl |-> IF sl # 0 THEN p.sl_pool - rd1 ELSE p.sl_pool,
         sp |-> IF drawing_on_stockpiles[n][c] THEN p.sp_pool - rd2 ELSE stockpiles[n][c],
         wm |-> p.wm_pool - rd3,
         imports |-> Min(p.wm_pool, rd3)]

\* the pools after the purchase, domestic first
TakeDomesticFirst(n, c, p) ==
    LET sl == in_sphere_of(n)
        rd1 == Max(p.rd - p.dom_pool, 0)
        rd2 == IF sl # 0 THEN Max(rd1 - p.sl_pool, 0) ELSE rd1
        rd3 == IF drawing_on_stockpiles[n][c] THEN Max(rd2 - p.sp_pool, 0) ELSE rd2
    IN  [dom |-> Max(0, p.dom_pool - p.rd),
         sl |-> IF sl # 0 THEN Max(0, p.sl_pool - rd1) ELSE p.sl_pool,
         sp |-> IF drawing_on_stockpiles[n][c] THEN Max(0, p.sp_pool - rd2) ELSE stockpiles[n][c],
         wm |-> Max(0, p.wm_pool - rd3),
         imports |-> Min(p.wm_pool, rd3)]

TakeGlobalFirstDrained(n, c, p) ==
    [dom |-> p.dom_pool, sl |-> p.sl_pool, sp |-> stockpiles[n][c], wm |-> 0,
     imports |-> Min(p.wm_pool, p.rd)]

\* the pools after the purchase, world pool first
TakeGlobalFirst(n, c, p) ==
    LET sl == in_sphere_of(n)
        rd1 == Max(p.rd - p.wm_pool, 0)
        rd2 == Max(rd1 - p.dom_pool, 0)
        rd3 == IF sl # 0 THEN Max(rd2 - p.sl_pool, 0) ELSE rd2
    IN  [dom |-> Max(0, p.dom_pool - rd1),
         sl |-> IF sl # 0 THEN Max(0, p.sl_pool - rd2) ELSE p.sl_pool,
         sp |-> IF drawing_on_stockpiles[n][c] THEN Max(0, p.sp_pool - rd3) ELSE stockpiles[n][c],
         wm |-> Max(0, p.wm_pool - p.rd),
         imports |-> Min(p.wm_pool, p.rd)]

TakenDomesticFirst(n, c, p) == TakeDomesticFirst(n, c, p)

Taken(n, c, p) == IF p.prefer_domestic THEN TakeDomesticFirst(n, c, p) ELSE TakeGlobalFirst(n, c, p)

\* new_sat = rd > 0.0001f ? total_supply / rd : total_supply
NewSat(p) ==
    LET total_supply == p.dom_pool + p.sl_pool + p.sp_pool + p.wm_pool
    IN  IF p.rd > 0 THEN DivF(total_supply, p.rd) ELSE total_supply

AdjSat(old_sat, new_sat) ==
    MulF(old_sat, alice_sat_delay_factor) + MulF(new_sat, Unit - alice_sat_delay_factor)

CapSatNone(sat) == sat

\* std::min(1.0f, sat)
CapSat(sat) == Min(Unit, sat)

\* start of the day: both sphere loops over nations_by_rank
SphereShare ==
    /\ market_phase = "share"
    /\ domestic_market_pool' = [n \in Nations |-> [c \in Commodities |-> PoolAfterSharing(n, c)]]
    /\ market_phase' = "clear"
    /\ clear_next' = 1
    /\ UNCHANGED <<global_market_pool, real_demand, demand_satisfaction,
                   direct_demand_satisfaction, stockpiles, drawing_on_stockpiles, imports,
                   tariff_rate, market_day, clear_log, notMarket>>

\* one nation's body of the rank loop: its demand is registered (amount for the
\* ordinary good), then every commodity is bought from the pools
ClearNation(amount) ==
    /\ market_phase = "clear"
    /\ LET n == nations_by_rank[clear_next]
           sl == in_sphere_of(n)
           rd == [c \in Commodities |-> IF c = 2 THEN amount ELSE 0]
           seen == [c \in Commodities |-> PoolsSeen(n, c, rd[c])]
           got == [c \in Commodities |-> Taken(n, c, seen[c])]
       IN  /\ real_demand' = [real_demand EXCEPT ![n] = rd]
           /\ demand_satisfaction' =
                  [demand_satisfaction EXCEPT ![n] =
                      [c \in Commodities |->
                          CapSat(AdjSat(demand_satisfaction[n][c], NewSat(seen[c])))]]
           /\ direct_demand_satisfaction' =
                  [direct_demand_satisfaction EXCEPT ![n] =
                      [c \in Commodities |-> CapSat(NewSat(seen[c]))]]
           /\ domestic_market_pool' =
                  [m \in Nations |->
                      [c \in Commodities |->
                          IF m = n THEN got[c].dom
                          ELSE IF m = sl THEN got[c].sl
                          ELSE domestic_market_pool[m][c]]]
           /\ stockpiles' = [stockpiles EXCEPT ![n] = [c \in Commodities |-> got[c].sp]]
           /\ global_market_pool' = [c \in Commodities |-> got[c].wm]
           /\ imports' = [imports EXCEPT ![n] = [c \in Commodities |-> got[c].imports]]
           /\ clear_log' = [clear_log EXCEPT ![n] =
                  [c \in Commodities |->
                      seen[c] @@ [last_demand |-> real_demand[n][c],
                                  effective_price |-> populate_effective_prices(n, c)]]]
    /\ IF clear_next < Len(nations_by_rank)
       THEN clear_next' = clear_next + 1 /\ market_phase' = "clear"
       ELSE clear_next' = 0 /\ market_phase' = "end"
    /\ UNCHANGED <<drawing_on_stockpiles, tariff_rate, market_day, notMarket>>

\* the log of a day on which the nation has not cleared yet
NoPools == [dom_pool |-> 0, sl_pool |-> 0, sp_pool |-> 0, wm_pool |-> 0, rd |-> 0,
            prefer_domestic |-> TRUE, last_demand |-> 0, effective_price |-> Unit]

EndClearingNoDecay ==
    /\ market_phase = "end"
    /\ global_market_pool' =
           [c \in Commodities |->
               global_market_pool[c] + SumOver(Nations, LAMBDA n : domestic_market_pool[n][c])]
    /\ domestic_market_pool' = [n \in Nations |-> [c \in Commodities |-> 0]]
    /\ market_phase' = "produce"
    /\ clear_log' = [n \in Nations |-> [c \in Commodities |-> NoPools]]
    /\ UNCHANGED <<real_demand, demand_satisfaction, direct_demand_satisfaction, stockpiles,
                   drawing_on_stockpiles, imports, tariff_rate, market_day, clear_next,
                   notMarket>>

\* move remaining domestic supply to global pool, clear domestic market
EndClearing ==
    /\ market_phase = "end"
    /\ global_market_pool' =
           [c \in Commodities |->
               QuotT(global_market_pool[c], 2)
               + SumOver(Nations, LAMBDA n : domestic_market_pool[n][c])]
    /\ domestic_market_pool' = [n \in Nations |-> [c \in Commodities |-> 0]]
    /\ market_phase' = "produce"
    /\ clear_log' = [n \in Nations |-> [c \in Commodities |-> NoPools]]
    /\ UNCHANGED <<real_demand, demand_satisfaction, direct_demand_satisfaction, stockpiles,
                   drawing_on_stockpiles, imports, tariff_rate, market_day, clear_next,
                   notMarket>>

\* register_domestic_supply of the producers of every nation, for the ordinary good
Produce(s) ==
    /\ market_phase = "produce"
    /\ domestic_market_pool' =
           [n \in Nations |->
               [domestic_market_pool[n] EXCEPT ![2] = domestic_market_pool[n][2] + s[n]]]
    /\ market_phase' = "share"
    /\ market_day' = market_day + 1
    /\ UNCHANGED <<global_market_pool, real_demand, demand_satisfaction,
                   direct_demand_satisfaction, stockpiles, drawing_on_stockpiles, imports,
                   tariff_rate, clear_next, clear_log, notMarket>>

-----------------------------------------------------------------------------
(* The market specification: from the state initialize leaves, days of sharing, *)
(* clearing and production.                                                    *)

MaxMarketDays == 3

MarketInit ==
    /\ PriceParked
    /\ FiscalParked
    /\ RgoParked
    /\ FactoryParked
    /\ ParallelParked
    /\ ConstructionParked
    /\ TreasuryParked
    /\ ConsumptionParked
    /\ EmploymentParked
    /\ CountParked
    /\ global_market_pool = [c \in Commodities |-> 0]
    /\ real_demand = [n \in Nations |-> [c \in Commodities |-> 0]]
    /\ domestic_market_pool = [n \in Nations |-> [c \in Commodities |-> 0]]
    /\ demand_satisfaction = [n \in Nations |-> [c \in Commodities |-> Unit]]
    /\ direct_demand_satisfaction = [n \in Nations |-> [c \in Commodities |-> 0]]
    /\ \E amount \in {0, Qty} :
          stockpiles = [n \in Nations |-> [c \in Commodities |->
                            IF n = 2 /\ c = 2 THEN amount ELSE 0]]
    /\ \E b \in BOOLEAN :
          drawing_on_stockpiles = [n \in Nations |-> [c \in Commodities |->
                            n = 2 /\ c = 2 /\ b]]
    /\ imports = [n \in Nations |-> [c \in Commodities |-> 0]]
    /\ tariff_rate \in [Nations -> {-100, 100}]
    /\ market_phase = "share"
    /\ market_day = 0
    /\ clear_next = 0
    /\ clear_log = [n \in Nations |-> [c \in Commodities |-> NoPools]]

MarketNext ==
    \/ /\ market_day < MaxMarketDays
       /\ SphereShare
    \/ \E amount \in {0, Qty \div 2, 2 * Qty} : ClearNation(amount)
    \/ EndClearing
    \/ \E s \in [Nations -> {0, Qty}] : Produce(s)

SpecMarket == MarketInit /\ [][MarketNext]_vars

\* C24: in every daily update both sphere loops are over before any nation's
\* effective prices, consumption or clearing: a leader's pool gains its share of
\* each member's pool as it stood before sharing, a member's pool is then cut to
\* (1 - share) of that same value, and demand satisfaction and the clearing record
\* change only after the sharing step.
C24_AbsorbBeforeGive ==
    [][/\ market_phase = "share" =>
             /\ market_phase' = "clear"
             /\ \A n \in Nations, c \in Commodities :
                    LET sl == in_sphere_of(n)
                        members == {t \in Nations : in_sphere_of(t) = n}
                        taken(t) == MulF(sphere_leader_share_factor(n, t),
                                         domestic_market_pool[t][c])
                    IN  IF sl # 0
                        THEN domestic_market_pool'[n][c] =
                                 MulF(domestic_market_pool[n][c],
                                      Unit - sphere_leader_share_factor(sl, n))
                        ELSE domestic_market_pool'[n][c] =
                                 domestic_market_pool[n][c] + SumOver(members, taken)
       /\ (clear_log' # clear_log \/ demand_satisfaction' # demand_satisfaction
           \/ imports' # imports)
              => market_phase \in {"clear", "end"}
      ]_vars

\* C24 witness: the first clearing of a day is about to start, the leader produced
\* Qty and holds Qty plus half of the member's Qty, the member holds the other half
C24_Witness ==
    /\ market_phase = "clear"
    /\ clear_next = 1
    /\ domestic_market_pool[1][2] = Qty + Qty \div 2
    /\ domestic_market_pool[2][2] = Qty \div 2

\* C2: in every state reached from initialize by daily updates, every nation's
\* demand_satisfaction and direct_demand_satisfaction of every commodity lie in [0, 1].
C2_SatisfactionInUnit ==
    \A n \in Nations, c \in Commodities :
        /\ 0 <= demand_satisfaction[n][c] /\ demand_satisfaction[n][c] <= Unit
        /\ 0 <= direct_demand_satisfaction[n][c] /\ direct_demand_satisfaction[n][c] <= Unit

\* C2 witness: a clearing saw more supply than demand (raw ratio above 1) and left
\* both satisfactions at 1, and the next nation's clearing found less than it asked for.
C2_Witness ==
    /\ market_phase = "end"
    /\ clear_log[1][2].rd > 0
    /\ NewSat(clear_log[1][2]) > Unit
    /\ demand_satisfaction[1][2] = Unit
    /\ direct_demand_satisfaction[1][2] = Unit
    /\ clear_log[2][2].rd > 0
    /\ direct_demand_satisfaction[2][2] < Unit
    /\ demand_satisfaction[2][2] < Unit

-----------------------------------------------------------------------------
(* The national budget: what a nation owes for a tick (full_spending_cost),  *)
(* the spending step, the payment of pops, the refunds and taxes of the      *)
(* per-nation update, and the bankruptcy phase.                              *)

\* ticks a run of the budget specification lasts
MaxFiscalDays == 3

is_player_controlled(n) == n = 1
great_nations == <<1, 2>>

\* the sliders as initialize sets them, in percent
administrative_spending(n) == 80
military_spending(n) == 60
education_spending(n) == 100
domestic_investment_spending(n) == 0
social_spending(n) == 100
land_spending(n) == 100
naval_spending(n) == 100
construction_spending(n) == 100
poor_tax(n) == 75
middle_tax(n) == 75
rich_tax(n) == 75

\* float(slider) / 100.0f
Pct(slider) == (slider * Unit) \div 100

\* values the budget reads from modifiers and defines
administrative_efficiency(n) == Unit
tax_efficiency(n) == 400
pension_level(n) == 500
unemployment_benefit(n) == 500
loan_interest(n) == 0
max_loan_modifier(n) == 0
loan_base_interest == 300
small_debt_limit == 30 * Unit
bankrupcy_duration_days == 2
bankruptcy_external_loan_days == 4
province_overseas_penalty == 10 * Unit
alice_needs_scaling_factor == Unit
alice_domestic_investment_multiplier == Unit
commodity_cost(c) == Unit
commodity_overseas_penalty(c) == c = 2

\* the pops: laborers in nation 1, bureaucrats in nation 2
Pops == 1 .. 2
PopTypes == {"laborers", "bureaucrats", "capitalists", "aristocrat"}
owner_of_pop(p) == p
poptype(p) == IF p = 1 THEN "laborers" ELSE "bureaucrats"
pop_size(p) == 10 * Unit
pop_employment(p) == 0
strata(pt) == IF pt = "laborers" THEN "poor" ELSE "middle"
has_unemployment(pt) == pt = "laborers"
life_needs_income_type(pt) == IF pt = "bureaucrats" THEN "administration" ELSE "none"
everyday_needs_income_type(pt) == IF pt = "bureaucrats" THEN "administration" ELSE "none"
luxury_needs_income_type(pt) == IF pt = "bureaucrats" THEN "administration" ELSE "none"

\* pop_type_get_life_needs and the like, per commodity
pop_type_needs(pt, c) ==
    IF pt = "laborers" THEN laborer_needs[c]
    ELSE IF pt = "bureaucrats" /\ c = 2 THEN [life |-> 1, everyday |-> 1, luxury |-> 0]
    ELSE [life |-> 0, everyday |-> 0, luxury |-> 0]

\* nation_get_demographics(n, to_key(pt)) and to_employment_key(pt)
demographics(n, pt) ==
    SumOver(Pops, LAMBDA p : IF owner_of_pop(p) = n /\ poptype(p) = pt THEN pop_size(p) ELSE 0)
employment_demographics(n, pt) ==
    SumOver(Pops, LAMBDA p : IF owner_of_pop(p) = n /\ poptype(p) = pt
                              THEN pop_employment(p) ELSE 0)

\* populate_needs_costs: the needs of a pop type valued at the nation's prices
life_needs_costs(n, pt) ==
    SumOver(Commodities, LAMBDA c :
        IF is_available_from_start(c)
        THEN pop_type_needs(pt, c).life * effective_prices[n][c] * base_goods_demand
                 * alice_lf_needs_scale
        ELSE 0)
everyday_needs_costs(n, pt) ==
    SumOver(Commodities, LAMBDA c :
        IF is_available_from_start(c)
        THEN pop_type_needs(pt, c).everyday * effective_prices[n][c] * base_goods_demand
                 * alice_ev_needs_scale
        ELSE 0)
luxury_needs_costs(n, pt) ==
    SumOver(Commodities, LAMBDA c :
        IF is_available_from_start(c)
        THEN pop_type_needs(pt, c).luxury * effective_prices[n][c] * base_goods_demand
                 * alice_lx_needs_scale
        ELSE 0)

\* bool can_take_loans(state, n)
can_take_loans_unbarred(n) ==
    IF ~is_player_controlled(n) \/ ~is_debt_spending[n] THEN FALSE
    ELSE TRUE

can_take_loans(n) ==
    IF ~is_player_controlled(n) \/ ~is_debt_spending[n] THEN FALSE
    ELSE IF bankrupt_until[n] # 0 /\ current_date < bankrupt_until[n] THEN FALSE
    ELSE TRUE

\* float interest_payment(state, n)
interest_payment(n) ==
    LET debt == stockpiles_money[n]
    IN  IF debt >= 0 THEN 0
        ELSE QuotT(MulF(-debt, Max(10, MulF(loan_interest(n) + Unit, loan_base_interest))), 30)

\* float max_loan(state, n)
max_loan(n) ==
    LET mod == max_loan_modifier(n) + Unit
        total_tax_base == total_income[n].rich + total_income[n].middle + total_income[n].poor
    IN  Max(0, MulF(total_tax_base, mod))

\* the budget lines of full_spending_cost, per commodity
ArmyCost(n, c) == MulF(MulF(army_demand[n][c], Pct(land_spending(n))), effective_prices[n][c])
NavyCost(n, c) == MulF(MulF(navy_demand[n][c], Pct(naval_spending(n))), effective_prices[n][c])
ConstructionCost(n, c) ==
    MulF(MulF(construction_demand[n][c], Pct(construction_spending(n))), effective_prices[n][c])
StockpileDifference(n, c) ==
    LET difference == stockpile_targets[n][c] - stockpiles[n][c]
    IN  IF difference > 0 /\ ~drawing_on_stockpiles[n][c] THEN difference ELSE 0
StockpileCost(n, c) == MulF(StockpileDifference(n, c), effective_prices[n][c])
overseas_factor(n) == province_overseas_penalty * overseas_provinces[n]
PaysOverseas(n, c) ==
    overseas_factor(n) > 0 /\ commodity_overseas_penalty(c) /\ is_available_from_start(c)
OverseasCost(n, c) ==
    IF PaysOverseas(n, c)
    THEN MulF(MulF(overseas_factor(n), effective_prices[n][c]), Pct(overseas_spending[n]))
    ELSE 0

\* the spending levels of the pop payments, before the spending scale
a_spending(n) == QuotT(Pct(administrative_spending(n)) * administrative_spending(n), 100)
s_spending(n) == MulF(administrative_efficiency(n), Pct(social_spending(n)))
e_spending(n) == QuotT(Pct(education_spending(n)) * education_spending(n), 100)
m_spending(n) == QuotT(Pct(military_spending(n)) * military_spending(n), 100)
di_spending(n) ==
    QuotT(Pct(domestic_investment_spending(n)) * domestic_investment_spending(n), 100)

\* the domestic investment line of full_spending_cost
DomesticInvestmentCost(n) ==
    DivF(MulF(MulF(alice_domestic_investment_multiplier, di_spending(n)),
              MulF(demographics(n, "capitalists"), luxury_needs_costs(n, "capitalists"))
              + MulF(demographics(n, "aristocrat"), luxury_needs_costs(n, "aristocrat"))),
         alice_needs_scaling_factor)

\* what one income type pays for one kind of need
NeedsPay(n, income_type, adj_pop, costs) ==
    IF income_type = "administration" THEN MulF(MulF(a_spending(n), adj_pop), costs)
    ELSE IF income_type = "education" THEN MulF(MulF(e_spending(n), adj_pop), costs)
    ELSE IF income_type = "military" THEN MulF(MulF(m_spending(n), adj_pop), costs)
    ELSE 0

\* the direct payments full_spending_cost adds for one pop type
PopTypeCost(n, pt) ==
    LET adj_pop_of_type == DivF(demographics(n, pt), alice_needs_scaling_factor)
        emp == DivF(employment_demographics(n, pt), alice_needs_scaling_factor)
        ln_type == life_needs_income_type(pt)
    IN  IF adj_pop_of_type <= 0 THEN 0
        ELSE (IF ln_type \in {"administration", "education", "military"}
              THEN NeedsPay(n, ln_type, adj_pop_of_type, life_needs_costs(n, pt))
              ELSE MulF(MulF(MulF(s_spending(n), adj_pop_of_type), pension_level(n)),
                        life_needs_costs(n, pt))
                   + (IF has_unemployment(pt)
                      THEN MulF(MulF(MulF(s_spending(n), adj_pop_of_type - emp),
                                     unemployment_benefit(n)), life_needs_costs(n, pt))
                      ELSE 0))
             + NeedsPay(n, everyday_needs_income_type(pt), adj_pop_of_type,
                        everyday_needs_costs(n, pt))
             + NeedsPay(n, luxury_needs_income_type(pt), adj_pop_of_type,
                        luxury_needs_costs(n, pt))

\* float full_spending_cost(state, n)
full_spending_cost(n) ==
    SumOver(Commodities, LAMBDA c : ArmyCost(n, c))
    + SumOver(Commodities, LAMBDA c : NavyCost(n, c))
    + SumOver(Commodities, LAMBDA c : ConstructionCost(n, c))
    + SumOver(Commodities, LAMBDA c : StockpileCost(n, c))
    + SumOver(Commodities, LAMBDA c : OverseasCost(n, c))
    + DomesticInvestmentCost(n)
    + SumOver(PopTypes, LAMBDA pt : PopTypeCost(n, pt))

\* what the spending pass deducts for each goods line of full_spending_cost: the
\* line's cost times the spending scale
ChargedFor(n, spending_scale) ==
    [army |-> MulF(SumOver(Commodities, LAMBDA c : ArmyCost(n, c)), spending_scale),
     navy |-> MulF(SumOver(Commodities, LAMBDA c : NavyCost(n, c)), spending_scale),
     construction |-> MulF(SumOver(Commodities, LAMBDA c : ConstructionCost(n, c)),
                           spending_scale),
     fill |-> MulF(SumOver(Commodities, LAMBDA c : StockpileCost(n, c)), spending_scale),
     overseas |-> MulF(SumOver(Commodities, LAMBDA c : OverseasCost(n, c)), spending_scale)]

\* spending_scale of a nation that cannot borrow
SpendingScaleNoFloor(total, sp) ==
    IF total < 1 \/ total <= sp THEN Unit ELSE DivF(sp, total)

SpendingScale(total, sp) ==
    LET budget == Max(0, sp)
    IN  IF total < 1 \/ total <= budget THEN Unit ELSE DivF(budget, total)

\* what the market can leave a nation with in a tick: the markup of its effective
\* price over the market price, and the two satisfactions of the ordinary good
MarketSamples(n) ==
    IF n = 1
    THEN {[markup |-> Unit, sat |-> Unit, direct |-> Unit],
          [markup |-> Unit, sat |-> 500, direct |-> 0],
          [markup |-> 1200, sat |-> 500, direct |-> 500],
          [markup |-> Unit, sat |-> 250, direct |-> 500]}
    ELSE {[markup |-> Unit, sat |-> 500, direct |-> 500]}

NextNation(phase_after) ==
    IF fiscal_next < Len(nations_by_rank)
    THEN /\ fiscal_next' = fiscal_next + 1
         /\ fiscal_phase' = fiscal_phase
    ELSE /\ fiscal_next' = 1
         /\ fiscal_phase' = phase_after

\* The player switches debt spending on or off between two ticks.
ToggleDebtSpending(n) ==
    /\ fiscal_phase = "start"
    /\ fiscal_day < MaxFiscalDays
    /\ is_player_controlled(n)
    /\ is_debt_spending' = [is_debt_spending EXCEPT ![n] = ~is_debt_spending[n]]
    /\ UNCHANGED <<stockpiles_money, bankrupt_until, timed_modifiers, current_date,
                   spending_level, effective_prices, army_demand, navy_demand,
                   construction_projects, construction_demand, stockpile_targets,
                   overseas_provinces, overseas_spending, total_income, savings, inflation,
                   default_events, fiscalBook, demand_satisfaction,
                   direct_demand_satisfaction, stockpiles, treasuryVars,
                   notFiscal>>

\* The head of daily_update: populate_army_consumption, populate_navy_consumption
\* (the forces are unchanged) and populate_construction_consumption.
StartTick ==
    /\ fiscal_phase = "start"
    /\ fiscal_day < MaxFiscalDays
    /\ construction_demand' = construction_projects
    /\ subsidies_spending' = [n \in Nations |-> 0]
    /\ treasury_log' = [n \in Nations |->
           [start |-> stockpiles_money[n], loans |-> can_take_loans(n),
            low |-> stockpiles_money[n], subsidy |-> <<>>, diplomatic |-> <<>>]]
    /\ fiscal_phase' = "prices"
    /\ fiscal_next' = 1
    /\ fiscal_day' = fiscal_day + 1
    /\ UNCHANGED <<stockpiles_money, is_debt_spending, bankrupt_until, timed_modifiers,
                   current_date, spending_level, effective_prices, army_demand, navy_demand,
                   construction_projects, stockpile_targets, overseas_provinces,
                   overseas_spending, total_income, savings, inflation, default_events,
                   spend_log, paid_log, refund_log, bankruptcy_log, demand_satisfaction,
                   direct_demand_satisfaction, stockpiles, nation_factories, unilateral_relationship, reparations_until,
                   notFiscal>>

\* populate_effective_prices at the head of a nation's turn in the clearing loop
PopulatePrices(n, markup) ==
    /\ fiscal_phase = "prices"
    /\ n = nations_by_rank[fiscal_next]
    /\ effective_prices' = [effective_prices EXCEPT ![n] =
           [c \in Commodities |->
               IF money_rgo(c) THEN current_price[c] ELSE MulF(current_price[c], markup)]]
    /\ fiscal_phase' = "spend"
    /\ UNCHANGED <<stockpiles_money, is_debt_spending, bankrupt_until, timed_modifiers,
                   current_date, spending_level, army_demand, navy_demand,
                   construction_projects, construction_demand, stockpile_targets,
                   overseas_provinces, overseas_spending, total_income, savings, inflation,
                   default_events, fiscal_day, fiscal_next, spend_log, paid_log, refund_log,
                   bankruptcy_log, demand_satisfaction, direct_demand_satisfaction, stockpiles,
                   treasuryVars,
                   notFiscal>>

\* The rest of the nation's turn: its national spending step, and the
\* satisfactions its purchases end with.
SpendNation(n, m) ==
    /\ fiscal_phase = "spend"
    /\ n = nations_by_rank[fiscal_next]
    /\ effective_prices[n][2] = MulF(current_price[2], m.markup)
    /\ LET total == full_spending_cost(n)
           interest == IF is_player_controlled(n) THEN interest_payment(n) ELSE 0
           sp == stockpiles_money[n] - interest
           loans == can_take_loans(n)
           budget == IF loans THEN total ELSE Max(0, sp)
           spending_scale == IF loans THEN Unit ELSE SpendingScale(total, sp)
           deducted == Min(budget, MulF(total, spending_scale))
       IN  /\ stockpiles_money' = [stockpiles_money EXCEPT ![n] = sp - deducted]
           /\ spending_level' = [spending_level EXCEPT ![n] = spending_scale]
           /\ spend_log' = [spend_log EXCEPT ![n] =
                  [done |-> TRUE, before |-> stockpiles_money[n], interest |-> interest,
                   treasury |-> sp, total |-> total, loans |-> loans,
                   deducted |-> deducted, date |-> current_date,
                   charged |-> ChargedFor(n, spending_scale)]]
           /\ treasury_log' = [treasury_log EXCEPT ![n].low =
                  Min(treasury_log[n].low, Min(sp, sp - deducted))]
    /\ demand_satisfaction' = [demand_satisfaction EXCEPT ![n][2] = m.sat]
    /\ direct_demand_satisfaction' = [direct_demand_satisfaction EXCEPT ![n][2] = m.direct]
    /\ IF fiscal_next < Len(nations_by_rank)
       THEN /\ fiscal_next' = fiscal_next + 1
            /\ fiscal_phase' = "prices"
       ELSE /\ fiscal_next' = 1
            /\ fiscal_phase' = "pay"
    /\ UNCHANGED <<is_debt_spending, bankrupt_until, timed_modifiers, current_date,
                   effective_prices, army_demand, navy_demand, construction_projects,
                   construction_demand, stockpile_targets, overseas_provinces,
                   overseas_spending, total_income, savings, inflation, default_events,
                   fiscal_day, paid_log, refund_log, bankruptcy_log, stockpiles, nation_factories, subsidies_spending, unilateral_relationship,
                   reparations_until,
                   notFiscal>>

\* what the payment pass gives one pop, before inflation
PopPay(p) ==
    LET n == owner_of_pop(p)
        pt == poptype(p)
        owner_spending == spending_level[n]
        pop_of_type == pop_size(p)
        adj_pop_of_type == DivF(pop_of_type, alice_needs_scaling_factor)
        a_level == QuotT(MulF(owner_spending, Pct(administrative_spending(n)))
                             * administrative_spending(n), 100)
        s_level == MulF(MulF(owner_spending, administrative_efficiency(n)),
                        Pct(social_spending(n)))
        e_level == QuotT(MulF(owner_spending, Pct(education_spending(n)))
                             * education_spending(n), 100)
        m_level == QuotT(MulF(owner_spending, Pct(military_spending(n)))
                             * military_spending(n), 100)
        di_level == QuotT(MulF(owner_spending, Pct(domestic_investment_spending(n)))
                              * domestic_investment_spending(n), 100)
        ln_costs == life_needs_costs(n, pt)
        en_costs == everyday_needs_costs(n, pt)
        lx_costs == luxury_needs_costs(n, pt)
        Needs(level, income_type) ==
            (IF life_needs_income_type(pt) = income_type
             THEN MulF(MulF(level, adj_pop_of_type), ln_costs) ELSE 0)
            + (IF everyday_needs_income_type(pt) = income_type
               THEN MulF(MulF(level, adj_pop_of_type), en_costs) ELSE 0)
            + (IF luxury_needs_income_type(pt) = income_type
               THEN MulF(MulF(level, adj_pop_of_type), lx_costs) ELSE 0)
        none_of_above == life_needs_income_type(pt) \notin
                             {"military", "education", "administration"}
        acc_a == Needs(a_level, "administration")
        acc_e == Needs(e_level, "education")
        acc_m == Needs(m_level, "military")
        acc_u == (IF none_of_above
                  THEN MulF(MulF(MulF(s_level, adj_pop_of_type), pension_level(n)), ln_costs)
                  ELSE 0)
                 + (IF pt \in {"capitalists", "aristocrat"}
                    THEN MulF(MulF(MulF(di_level, adj_pop_of_type),
                                   alice_domestic_investment_multiplier), lx_costs)
                    ELSE 0)
                 + (IF none_of_above /\ has_unemployment(pt)
                    THEN MulF(MulF(DivF(MulF(s_level, pop_of_type - pop_employment(p)),
                                        alice_needs_scaling_factor),
                                   unemployment_benefit(n)), ln_costs)
                    ELSE 0)
    IN  (acc_e + acc_m) + (acc_u + acc_a)

\* pay non "employed" pops: every pop's savings are set to its payment
PayPops ==
    /\ fiscal_phase = "pay"
    /\ savings' = [p \in Pops |-> MulF(inflation, PopPay(p))]
    /\ paid_log' = [n \in Nations |->
                       SumOver(Pops, LAMBDA p : IF owner_of_pop(p) = n
                                                 THEN MulF(inflation, PopPay(p)) ELSE 0)]
    /\ fiscal_phase' = "nation"
    /\ fiscal_next' = 1
    /\ UNCHANGED <<stockpiles_money, is_debt_spending, bankrupt_until, timed_modifiers,
                   current_date, spending_level, effective_prices, army_demand, navy_demand,
                   construction_projects, construction_demand, stockpile_targets,
                   overseas_provinces, overseas_spending, total_income, inflation,
                   default_events, fiscal_day, spend_log, refund_log, bankruptcy_log,
                   demand_satisfaction, direct_demand_satisfaction, stockpiles, treasuryVars,
                   notFiscal>>

\* the refunds of the per-nation update, per commodity
NavyRefund(n, c) ==
    MulF(MulF(MulF(MulF(navy_demand[n][c], Unit - demand_satisfaction[n][c]),
                   spending_level[n]), Pct(naval_spending(n))), current_price[c])
ArmyRefund(n, c) ==
    MulF(MulF(MulF(MulF(army_demand[n][c], Unit - demand_satisfaction[n][c]),
                   spending_level[n]), Pct(land_spending(n))), current_price[c])
StockpileRefund(n, c) ==
    MulF(MulF(MulF(StockpileDifference(n, c), Unit - direct_demand_satisfaction[n][c]),
              spending_level[n]), current_price[c])
OverseasRefund(n, c) ==
    IF PaysOverseas(n, c)
    THEN MulF(MulF(MulF(overseas_factor(n), Unit - demand_satisfaction[n][c]),
                   spending_level[n]), current_price[c])
    ELSE 0

\* the refund of advance_construction
ConstructionRefund(n, c) ==
    LET c_spending == MulF(spending_level[n], Pct(construction_spending(n)))
    IN  MulF(MulF(MulF(construction_demand[n][c], c_spending),
                  Unit - demand_satisfaction[n][c]), current_price[c])

\* what the goods a nation did get cost it: the share of every budget line that
\* was satisfied, at the price the line was charged at
KeptForGoods(n) ==
    SumOver(Commodities, LAMBDA c :
        MulF(MulF(ArmyCost(n, c), spending_level[n]), demand_satisfaction[n][c])
        + MulF(MulF(NavyCost(n, c), spending_level[n]), demand_satisfaction[n][c])
        + MulF(MulF(ConstructionCost(n, c), spending_level[n]), demand_satisfaction[n][c])
        + MulF(MulF(StockpileCost(n, c), spending_level[n]), direct_demand_satisfaction[n][c])
        + MulF(MulF(OverseasCost(n, c), spending_level[n]), demand_satisfaction[n][c]))

\* tax_eff * tax / 100 of a stratum, and the money its pops hold
TaxRate(n, st) ==
    LET tax == IF st = "poor" THEN poor_tax(n)
               ELSE IF st = "middle" THEN middle_tax(n) ELSE rich_tax(n)
    IN  QuotT(tax_efficiency(n) * tax, 100)
TaxBase(n, st) ==
    SumOver(Pops, LAMBDA p : IF owner_of_pop(p) = n /\ strata(poptype(p)) = st
                              THEN savings[p] ELSE 0)

\* pop_factory_min_wage of the nation, and the defines of the diplomatic expenses
treasury_defines ==
    [factory_min_wage |-> 50,
     alice_factory_per_level_employment |-> 100 * Unit,
     warsubsidies_percent |-> 100,
     reparations_tax_hit |-> 250,
     maximum_military_costs |-> 80 * Unit]

\* the subsidy is paid though the treasury does not exceed the shortfall
SubsidyGrantedAlways(treasury, diff, loans) == TRUE

\* the test that grants a subsidy
SubsidyGranted(treasury, diff, loans) == treasury > diff \/ loans

\* update_single_factory_production of one factory: the factory afterwards, the
\* treasury afterwards, the subsidy paid and the supply registered
update_single_factory_production(fac, treasury, loans, expected_min_wage) ==
    LET production == fac.actual_production
        money_made == fac.full_profit
        min_wages == MulF(MulF(expected_min_wage * fac.level, fac.primary_employment),
                          DivF(treasury_defines.alice_factory_per_level_employment,
                               alice_needs_scaling_factor))
        diff == min_wages - money_made
        untouched == [fac |-> fac, treasury |-> treasury, paid |-> 0, supply |-> 0,
                      refused |-> FALSE, min_wages |-> min_wages, before |-> treasury,
                      loans |-> loans, was |-> fac]
    IN  IF ~(production > 0) THEN untouched
        ELSE IF ~fac.subsidized \/ ~(money_made < min_wages)
        THEN [untouched EXCEPT !.supply = production]
        ELSE IF SubsidyGranted(treasury, diff, loans)
        THEN [untouched EXCEPT !.fac = [fac EXCEPT !.full_profit = min_wages],
                               !.treasury = treasury - diff,
                               !.paid = diff,
                               !.supply = production]
        ELSE [untouched EXCEPT !.fac = [fac EXCEPT !.full_profit = Max(money_made, 0),
                                                   !.subsidized = FALSE],
                               !.refused = TRUE,
                               !.supply = production]

\* the production loop over the factories of a nation, from factory i on
RECURSIVE FactoriesProduced(_, _, _, _)
FactoriesProduced(fs, i, treasury, loans) ==
    IF i > Len(fs) THEN <<>>
    ELSE LET r == update_single_factory_production(fs[i], treasury, loans,
                                                   treasury_defines.factory_min_wage)
         IN  <<r>> \o FactoriesProduced(fs, i + 1, r.treasury, loans)

\* The per-nation update: refunds, stockpile filling, factory production,
\* advance_construction, tax collection and tariffs of one nation.
NationUpdate ==
    /\ fiscal_phase = "nation"
    /\ LET n == nations_by_rank[fiscal_next]
           navy == SumOver(Commodities, LAMBDA c : NavyRefund(n, c))
           army == SumOver(Commodities, LAMBDA c : ArmyRefund(n, c))
           fill == SumOver(Commodities, LAMBDA c : StockpileRefund(n, c))
           overseas == SumOver(Commodities, LAMBDA c : OverseasRefund(n, c))
           refund == navy + army + fill + overseas
           refund_amount == SumOver(Commodities, LAMBDA c : ConstructionRefund(n, c))
           c_spending == MulF(spending_level[n], Pct(construction_spending(n)))
           collected_tax == MulF(TaxBase(n, "poor"), TaxRate(n, "poor"))
                            + MulF(TaxBase(n, "middle"), TaxRate(n, "middle"))
                            + MulF(TaxBase(n, "rich"), TaxRate(n, "rich"))
           t_total == SumOver(Commodities, LAMBDA c :
                          MulF(MulF(current_price[c], tariff_rate[n]), imports[n][c]))
           produced == FactoriesProduced(nation_factories[n], 1, stockpiles_money[n] + refund,
                                         can_take_loans(n))
           after_subsidies == IF produced = <<>> THEN stockpiles_money[n] + refund
                              ELSE produced[Len(produced)].treasury
       IN  /\ stockpiles' = [stockpiles EXCEPT ![n] = [c \in Commodities |->
                  stockpiles[n][c]
                  + MulF(MulF(StockpileDifference(n, c), spending_level[n]),
                         direct_demand_satisfaction[n][c])]]
           /\ construction_demand' = [construction_demand EXCEPT ![n] = [c \in Commodities |->
                  MulF(construction_demand[n][c], MulF(c_spending, demand_satisfaction[n][c]))]]
           /\ savings' = [p \in Pops |->
                  IF owner_of_pop(p) = n
                  THEN MulF(savings[p], Unit - TaxRate(n, strata(poptype(p))))
                  ELSE savings[p]]
           /\ total_income' = [total_income EXCEPT ![n] =
                  [poor |-> TaxBase(n, "poor"), middle |-> TaxBase(n, "middle"),
                   rich |-> TaxBase(n, "rich")]]
           /\ stockpiles_money' = [stockpiles_money EXCEPT ![n] =
                  after_subsidies + refund_amount + collected_tax + t_total]
           /\ nation_factories' = [nation_factories EXCEPT ![n] =
                  [i \in DOMAIN produced |-> produced[i].fac]]
           /\ subsidies_spending' = [subsidies_spending EXCEPT ![n] =
                  subsidies_spending[n] + SumOver(DOMAIN produced, LAMBDA i : produced[i].paid)]
           /\ treasury_log' = [treasury_log EXCEPT
                  ![n].subsidy = produced,
                  ![n].low = Min(treasury_log[n].low,
                                 Min(Min(stockpiles_money[n] + refund, after_subsidies),
                                     after_subsidies + refund_amount + collected_tax + t_total))]
           /\ refund_log' = [refund_log EXCEPT ![n] =
                  [done |-> TRUE, navy |-> navy, army |-> army, fill |-> fill,
                   overseas |-> overseas, construction |-> refund_amount,
                   tax |-> collected_tax, tariff |-> t_total, kept |-> KeptForGoods(n)]]
    /\ NextNation("diplomatic")
    /\ UNCHANGED <<is_debt_spending, bankrupt_until, timed_modifiers, current_date,
                   spending_level, effective_prices, army_demand, navy_demand,
                   construction_projects, stockpile_targets, overseas_provinces,
                   overseas_spending, inflation, default_events, fiscal_day, spend_log,
                   paid_log, bankruptcy_log, demand_satisfaction,
                   direct_demand_satisfaction, unilateral_relationship, reparations_until,
                   notFiscal>>

\* the positions of the relationships in the order the loop visits them: nation by
\* nation, the relationships a nation is the source of
RelationshipOrder ==
    LET RECURSIVE Of(_, _)
        Of(n, i) ==
            IF n > Cardinality(Nations) THEN <<>>
            ELSE IF i > Len(unilateral_relationship) THEN Of(n + 1, 1)
            ELSE IF unilateral_relationship[i].source = n THEN <<i>> \o Of(n, i + 1)
            ELSE Of(n, i + 1)
    IN  Of(1, 1)

\* std::min(n.get_stockpiles(money), payout) with a floor of nothing
CappedPayoutFloored(treasury, payout) == Max(0, Min(treasury, payout))

\* std::min(n.get_stockpiles(money), payout)
CappedPayout(treasury, payout) == Min(treasury, payout)

\* the diplomatic expenses from position k of the order on: the treasuries, the
\* relationships and the log afterwards
RECURSIVE DiplomaticPaid(_, _, _, _, _)
DiplomaticPaid(order, k, money, rels, log) ==
    IF k > Len(order) THEN [money |-> money, rels |-> rels, log |-> log]
    ELSE LET uni == rels[order[k]]
             n == uni.source
             target_m_costs == MulF(treasury_defines.maximum_military_costs,
                                    treasury_defines.warsubsidies_percent)
             affordable == target_m_costs <= money[n]
             money1 == IF uni.war_subsidies /\ affordable
                       THEN [money EXCEPT ![n] = @ - target_m_costs,
                                          ![uni.target] = @ + target_m_costs]
                       ELSE money
             rels1 == IF uni.war_subsidies /\ ~affordable
                      THEN [rels EXCEPT ![order[k]].war_subsidies = FALSE]
                      ELSE rels
             pays == uni.reparations /\ current_date < reparations_until[n]
             total_tax_base == total_income[n].rich + total_income[n].middle
                               + total_income[n].poor
             payout == MulF(MulF(total_tax_base, tax_efficiency(n)),
                            treasury_defines.reparations_tax_hit)
             capped_payout == CappedPayout(money1[n], payout)
             money2 == IF pays
                       THEN [money1 EXCEPT ![n] = @ - capped_payout,
                                           ![uni.target] = @ + capped_payout]
                       ELSE money1
             entry == [source |-> n, target |-> uni.target,
                       war_subsidies |-> uni.war_subsidies, before |-> money[n],
                       subsidy |-> money[n] - money1[n],
                       reparations |-> pays, treasury |-> money1[n], payout |-> payout,
                       capped_payout |-> IF pays THEN capped_payout ELSE 0,
                       after |-> money2]
         IN  DiplomaticPaid(order, k + 1, money2, rels1, Append(log, entry))

\* The diplomatic expenses of daily_update: war subsidies and reparations.
DiplomaticExpenses ==
    /\ fiscal_phase = "diplomatic"
    /\ \E r \in {DiplomaticPaid(RelationshipOrder, 1, stockpiles_money,
                                unilateral_relationship, <<>>)} :
          /\ stockpiles_money' = r.money
          /\ unilateral_relationship' = r.rels
          /\ treasury_log' = [n \in Nations |->
                 [treasury_log[n] EXCEPT
                     !.diplomatic = r.log,
                     !.low = LET RECURSIVE Low(_, _)
                                 Low(i, least) ==
                                     IF i > Len(r.log) THEN least
                                     ELSE Low(i + 1, Min(least, r.log[i].after[n]))
                             IN  Low(1, @)]]
    /\ fiscal_phase' = "bankruptcy"
    /\ UNCHANGED <<is_debt_spending, bankrupt_until, timed_modifiers, current_date,
                   spending_level, effective_prices, army_demand, navy_demand,
                   construction_projects, construction_demand, stockpile_targets,
                   overseas_provinces, overseas_spending, total_income, savings, inflation,
                   default_events, fiscal_day, fiscal_next, spend_log, paid_log, refund_log,
                   bankruptcy_log, demand_satisfaction, direct_demand_satisfaction,
                   stockpiles, nation_factories, subsidies_spending, reparations_until,
                   notFiscal>>

\* the test of the bankruptcy loop
Defaults(n) ==
    LET m == stockpiles_money[n]
    IN  m < 0 /\ m < -max_loan(n)

DefaultKindAlwaysNormal(n) == "on_debtor_default"

\* the event go_bankrupt fires for a defaulter
DefaultKind(n) ==
    LET existing_br == bankrupt_until[n]
        debt == stockpiles_money[n]
    IN  IF existing_br # 0 /\ current_date < existing_br THEN "on_debtor_default_second"
        ELSE IF debt >= -small_debt_limit THEN "on_debtor_default_small"
        ELSE "on_debtor_default"

\* the events go_bankrupt(n) fires, one to every great power but n
DefaultEvents(n) ==
    {[event |-> DefaultKind(n), to |-> great_nations[i], from |-> n, date |-> current_date] :
        i \in {k \in DOMAIN great_nations : great_nations[k] # n}}

BankruptUntilNever(n) == 0

\* current_date + int32_t(bankrupcy_duration * 365)
BankruptUntil(n) == current_date + bankrupcy_duration_days

\* The bankruptcy loop of daily_update with go_bankrupt for every defaulter.
BankruptcyPhase ==
    /\ fiscal_phase = "bankruptcy"
    /\ stockpiles_money' = [n \in Nations |-> IF Defaults(n) THEN 0 ELSE stockpiles_money[n]]
    /\ is_debt_spending' = [n \in Nations |-> IF Defaults(n) THEN FALSE ELSE is_debt_spending[n]]
    /\ bankrupt_until' = [n \in Nations |->
                             IF Defaults(n) THEN BankruptUntil(n) ELSE bankrupt_until[n]]
    /\ timed_modifiers' = [n \in Nations |->
           IF Defaults(n)
           THEN [in_bankrupcy |-> current_date + bankrupcy_duration_days,
                 bad_debter |-> current_date + bankruptcy_external_loan_days]
           ELSE timed_modifiers[n]]
    /\ default_events' = default_events \cup UNION {DefaultEvents(n) : n \in {d \in Nations : Defaults(d)}}
    /\ bankruptcy_log' = [n \in Nations |->
           [done |-> TRUE, treasury |-> stockpiles_money[n], max_loan |-> max_loan(n),
            went |-> Defaults(n), date |-> current_date, debt_spending |-> is_debt_spending[n],
            bankrupt_until |-> bankrupt_until[n], bad_debter |-> timed_modifiers[n].bad_debter]]
    /\ fiscal_phase' = "end"
    /\ UNCHANGED <<current_date, spending_level, effective_prices, army_demand, navy_demand,
                   construction_projects, construction_demand, stockpile_targets,
                   overseas_provinces, overseas_spending, total_income, savings, inflation,
                   fiscal_day, fiscal_next, spend_log, paid_log, refund_log,
                   demand_satisfaction, direct_demand_satisfaction, stockpiles, treasuryVars,
                   notFiscal>>

\* primary_commodity_basket and target_money of the inflation update
primary_commodity_basket ==
    QuotT(SumOver(Commodities, LAMBDA c : SumOver(PopTypes, LAMBDA pt :
              2 * commodity_cost(c) * pop_type_needs(pt, c).life
              + 2 * commodity_cost(c) * pop_type_needs(pt, c).everyday)),
          Cardinality(PopTypes))
target_money ==
    DivF(MulF(SumOver(Pops, LAMBDA p : pop_size(p)), primary_commodity_basket),
         alice_needs_scaling_factor)

\* The tail of daily_update (the inflation update) and the day that passes.
EndTick ==
    /\ fiscal_phase = "end"
    /\ LET total_pop_money == SumOver(Nations, LAMBDA n :
               total_income[n].rich + total_income[n].middle + total_income[n].poor)
       IN  inflation' = IF total_pop_money > 1
                        THEN MulF(inflation, 900) + DivF(MulF(100, target_money), total_pop_money)
                        ELSE inflation
    /\ current_date' = current_date + 1
    /\ fiscal_phase' = "start"
    /\ UNCHANGED <<stockpiles_money, is_debt_spending, bankrupt_until, timed_modifiers,
                   spending_level, effective_prices, army_demand, navy_demand,
                   construction_projects, construction_demand, stockpile_targets,
                   overseas_provinces, overseas_spending, total_income, savings,
                   default_events, fiscal_day, fiscal_next, spend_log, paid_log, refund_log,
                   bankruptcy_log, demand_satisfaction, direct_demand_satisfaction, stockpiles,
                   treasuryVars,
                   notFiscal>>

-----------------------------------------------------------------------------
(* The budget specification: a player nation (1) and an AI nation (2), both  *)
(* great powers, in the middle of a game.                                    *)

TreasurySamples == {-20 * Unit, 30 * Unit, 100 * Unit}

\* what nation 1 spends on: an army, or projects, a stockpile and overseas provinces
\* with the overseas slider at 50
BudgetSamples ==
    {[army |-> 40 * Unit, construction |-> 0, target |-> 0, overseas |-> 0, o_spending |-> 100],
     [army |-> 0, construction |-> 10 * Unit, target |-> 10 * Unit, overseas |-> 1,
      o_spending |-> 50]}

OnlyGood(n0, amount) ==
    [n \in Nations |-> [c \in Commodities |-> IF n = n0 /\ c = 2 THEN amount ELSE 0]]

FiscalStart(treasuries, budgets, factory_sets, relationship_sets) ==
    /\ RgoParked
    /\ FactoryParked
    /\ ParallelParked
    /\ ConstructionParked
    /\ ConsumptionParked
    /\ EmploymentParked
    /\ CountParked
    /\ current_price = [c \in Commodities |-> Unit]
    /\ total_production = [c \in Commodities |-> 0]
    /\ total_real_demand = [c \in Commodities |-> 0]
    /\ total_consumption = [c \in Commodities |-> 0]
    /\ laborer_needs = [c \in Commodities |->
                           [life |-> IF c = 2 THEN 1 ELSE 0, everyday |-> 0, luxury |-> 0]]
    /\ price_phase = "parked"
    /\ price_day = 0
    /\ price_step = <<>>
    /\ prev_step = <<>>
    /\ global_market_pool = [c \in Commodities |-> 0]
    /\ real_demand = [n \in Nations |-> [c \in Commodities |-> 0]]
    /\ domestic_market_pool = [n \in Nations |-> [c \in Commodities |-> 0]]
    /\ demand_satisfaction = [n \in Nations |-> [c \in Commodities |-> Unit]]
    /\ direct_demand_satisfaction = [n \in Nations |-> [c \in Commodities |-> Unit]]
    /\ stockpiles = [n \in Nations |-> [c \in Commodities |-> 0]]
    /\ drawing_on_stockpiles = [n \in Nations |-> [c \in Commodities |-> FALSE]]
    /\ imports = [n \in Nations |-> [c \in Commodities |-> 0]]
    /\ tariff_rate = [n \in Nations |-> 0]
    /\ market_phase = "parked"
    /\ market_day = 0
    /\ clear_next = 0
    /\ clear_log = <<>>
    /\ \E t \in treasuries : stockpiles_money = [n \in Nations |-> IF n = 1 THEN t ELSE 10 * Unit]
    /\ is_debt_spending = [n \in Nations |-> FALSE]
    /\ bankrupt_until = [n \in Nations |-> 0]
    /\ timed_modifiers = [n \in Nations |-> [in_bankrupcy |-> 0, bad_debter |-> 0]]
    /\ current_date = 1
    /\ spending_level = [n \in Nations |-> Unit]
    /\ effective_prices = [n \in Nations |-> [c \in Commodities |-> Unit]]
    /\ \E b \in budgets :
          /\ army_demand = OnlyGood(1, b.army)
          /\ construction_projects = OnlyGood(1, b.construction)
          /\ stockpile_targets = OnlyGood(1, b.target)
          /\ overseas_provinces = [n \in Nations |-> IF n = 1 THEN b.overseas ELSE 0]
          /\ overseas_spending = [n \in Nations |-> IF n = 1 THEN b.o_spending ELSE 100]
    /\ navy_demand = OnlyGood(2, 10 * Unit)
    /\ construction_demand = [n \in Nations |-> [c \in Commodities |-> 0]]
    /\ total_income = [n \in Nations |->
                          IF n = 1 THEN [poor |-> 10 * Unit, middle |-> 0, rich |-> 0]
                          ELSE [poor |-> 0, middle |-> 12 * Unit, rich |-> 0]]
    /\ savings = [p \in Pops |-> 0]
    /\ inflation = Unit
    /\ default_events = {}
    /\ fiscal_phase = "start"
    /\ fiscal_day = 0
    /\ fiscal_next = 1
    /\ spend_log = [n \in Nations |->
                       [done |-> FALSE, before |-> 0, interest |-> 0, treasury |-> 0,
                        total |-> 0, loans |-> FALSE, deducted |-> 0, date |-> 0,
                        charged |-> [army |-> 0, navy |-> 0, construction |-> 0,
                                     fill |-> 0, overseas |-> 0]]]
    /\ paid_log = [n \in Nations |-> 0]
    /\ refund_log = [n \in Nations |->
                        [done |-> FALSE, navy |-> 0, army |-> 0, fill |-> 0, overseas |-> 0,
                         construction |-> 0, tax |-> 0, tariff |-> 0, kept |-> 0]]
    /\ bankruptcy_log = [n \in Nations |->
                            [done |-> FALSE, treasury |-> 0, max_loan |-> 0, went |-> FALSE,
                             date |-> 0, debt_spending |-> FALSE, bankrupt_until |-> 0,
                             bad_debter |-> 0]]
    /\ nation_factories \in factory_sets
    /\ subsidies_spending = [n \in Nations |-> 0]
    /\ unilateral_relationship \in relationship_sets
    /\ reparations_until = [n \in Nations |-> 10]
    /\ treasury_log = [n \in Nations |->
                          [start |-> 0, loans |-> FALSE, low |-> 0, subsidy |-> <<>>,
                           diplomatic |-> <<>>]]

\* nations without factories and without war subsidies or reparations
FiscalInit ==
    FiscalStart(TreasurySamples, BudgetSamples, {[n \in Nations |-> <<>>]}, {<<>>})

FiscalNext ==
    \/ \E n \in Nations : ToggleDebtSpending(n)
    \/ StartTick
    \/ \E n \in Nations : \E m \in MarketSamples(n) : PopulatePrices(n, m.markup)
    \/ \E n \in Nations : \E m \in MarketSamples(n) : SpendNation(n, m)
    \/ PayPops
    \/ NationUpdate
    \/ DiplomaticExpenses
    \/ BankruptcyPhase
    \/ EndTick

SpecFiscal == FiscalInit /\ [][FiscalNext]_vars

-----------------------------------------------------------------------------
(* Claims about the national budget *)

\* the error the three-decimal grid may add to a sum of a nation's budget lines
RoundingSlack == Unit \div 10

\* the refunds a nation got in its last per-nation update
RefundsOf(n) ==
    refund_log[n].navy + refund_log[n].army + refund_log[n].fill + refund_log[n].overseas
    + refund_log[n].construction

\* C3: for every nation, once the tick's per-nation updates are done, the money its
\* spending step deducted equals the money paid to its pops plus the money kept for
\* the goods it got plus the refunds it received.
C3_SpendingConserved ==
    fiscal_phase \in {"bankruptcy", "end"} =>
        \A n \in Nations :
            Abs(spend_log[n].deducted - (paid_log[n] + refund_log[n].kept + RefundsOf(n)))
                <= RoundingSlack

\* C3, the failing input: nation 1 holds an overseas province with the overseas slider
\* at 50, prices are not marked up, inflation is 1 and half the goods are available;
\* the refunds exceed the unsatisfied half of what was charged.
C3_Failing ==
    /\ fiscal_phase = "bankruptcy"
    /\ fiscal_day = 1
    /\ overseas_provinces[1] = 1
    /\ overseas_spending[1] = 50
    /\ effective_prices[1][2] = current_price[2]
    /\ inflation = Unit
    /\ demand_satisfaction[1][2] = 500
    /\ spend_log[1].deducted = spend_log[1].total
    /\ refund_log[1].overseas = 5 * Unit
    /\ SumOver(Commodities, LAMBDA c : OverseasCost(1, c)) = 5 * Unit
    /\ paid_log[1] + refund_log[1].kept + RefundsOf(1) > spend_log[1].deducted + 2 * Unit

\* C5 as stated: the scale is 1 when the cost is at most the treasury or the nation
\* can borrow, else treasury / cost; the treasury falls by cost x scale; the scale is
\* in [0, 1].
C5_ScaleIsTreasuryOverCost ==
    \A n \in Nations :
        spend_log[n].done =>
            LET L == spend_log[n]
            IN  /\ spending_level[n] = IF L.total <= L.treasury \/ L.loans THEN Unit
                                       ELSE DivF(L.treasury, L.total)
                /\ L.deducted = MulF(L.total, spending_level[n])
                /\ 0 <= spending_level[n]
                /\ spending_level[n] <= Unit

\* C5, amended: with budget = max(0, treasury), the scale is 1 when the nation can
\* borrow or the cost is below 0.001 or at most the budget, else budget / cost; the
\* treasury falls by the whole cost when the nation can borrow, else by
\* min(budget, cost x scale); the scale is in [0, 1].
C5_SpendingScale ==
    \A n \in Nations :
        spend_log[n].done =>
            LET L == spend_log[n]
                budget == IF L.treasury > 0 THEN L.treasury ELSE 0
            IN  /\ spending_level[n] = IF L.loans \/ L.total < 1 \/ L.total <= budget THEN Unit
                                       ELSE DivF(budget, L.total)
                /\ L.deducted = IF L.loans THEN L.total
                                ELSE Min(budget, MulF(L.total, spending_level[n]))
                /\ 0 <= spending_level[n]
                /\ spending_level[n] <= Unit

\* C5 witness: nation 1 with treasury 30, cost 50 and no borrowing got scale 0.6
\* and paid 30
C5_Witness ==
    /\ spend_log[1].done
    /\ ~spend_log[1].loans
    /\ spend_log[1].treasury = 30 * Unit
    /\ spend_log[1].total = 50 * Unit
    /\ spending_level[1] = 600
    /\ spend_log[1].deducted = 30 * Unit

\* C5, second witness: in debt and unable to borrow, the scale is 0 and nothing is paid
C5_WitnessInDebt ==
    /\ spend_log[1].done
    /\ ~spend_log[1].loans
    /\ spend_log[1].treasury < 0
    /\ spend_log[1].total > 0
    /\ spending_level[1] = 0
    /\ spend_log[1].deducted = 0

\* C6: after the bankruptcy phase every nation whose treasury was below -max_loan has
\* treasury 0, debt spending off and bankrupt_until = current date + bankruptcy
\* duration; every other nation is as it was; no nation owes more than its max_loan.
C6_BankruptcyPhase ==
    fiscal_phase = "end" =>
        \A n \in Nations :
            LET B == bankruptcy_log[n]
            IN  /\ B.treasury < -max_loan(n) =>
                      /\ stockpiles_money[n] = 0
                      /\ ~is_debt_spending[n]
                      /\ bankrupt_until[n] = current_date + bankrupcy_duration_days
                /\ B.treasury >= -max_loan(n) =>
                      /\ stockpiles_money[n] = B.treasury
                      /\ is_debt_spending[n] = B.debt_spending
                      /\ bankrupt_until[n] = B.bankrupt_until
                /\ stockpiles_money[n] >= -max_loan(n)

\* C6 witness: the phase has run with nation 1 in debt beyond its positive max_loan
\* and debt spending on
C6_Witness ==
    /\ fiscal_phase = "end"
    /\ max_loan(1) > 0
    /\ bankruptcy_log[1].treasury < -max_loan(1)
    /\ bankruptcy_log[1].debt_spending
    /\ stockpiles_money[1] = 0
    /\ bankruptcy_log[2].treasury >= 0

\* C6, second witness: a nation in debt within its max_loan is left as it was
C6_WitnessWithin ==
    /\ fiscal_phase = "end"
    /\ bankruptcy_log[1].treasury < 0
    /\ bankruptcy_log[1].treasury >= -max_loan(1)
    /\ stockpiles_money[1] = bankruptcy_log[1].treasury

\* the kinds of event fired to great power g for the default of n in the last phase
KindsFired(n, g) ==
    {e.event : e \in {d \in default_events :
                         d.from = n /\ d.to = g /\ d.date = bankruptcy_log[n].date}}

\* C10: a defaulter's event goes, one kind only, to every great power but itself:
\* the second-default event when the bad_debter period of an earlier bankruptcy was
\* still running, else the small-debt event for a debt of at most small_debt_limit,
\* else the normal event.
C10_EventByBadDebtorPeriod ==
    \A n \in Nations :
        bankruptcy_log[n].went =>
            LET B == bankruptcy_log[n]
                kind == IF B.bad_debter # 0 /\ B.date < B.bad_debter
                        THEN "on_debtor_default_second"
                        ELSE IF -B.treasury <= small_debt_limit THEN "on_debtor_default_small"
                        ELSE "on_debtor_default"
            IN  \A i \in DOMAIN great_nations :
                    great_nations[i] # n => KindsFired(n, great_nations[i]) = {kind}

\* C10, the failing input: nation 1 defaults on a day past its bankrupt_until while
\* its bad_debter modifier still runs
C10_Failing ==
    /\ fiscal_phase = "end"
    /\ bankruptcy_log[1].went
    /\ bankruptcy_log[1].bankrupt_until # 0
    /\ bankruptcy_log[1].date >= bankruptcy_log[1].bankrupt_until
    /\ bankruptcy_log[1].date < bankruptcy_log[1].bad_debter
    /\ KindsFired(1, 2) \in {{"on_debtor_default_small"}, {"on_debtor_default"}}

\* the second-default event is never fired
NoSecondDefaultEvent ==
    \A e \in default_events : e.event # "on_debtor_default_second"

\* the spending pass logged for nation n ran after its last bankruptcy and before the
\* date that bankruptcy bars loans until
SpentWhileBarred(n) ==
    /\ spend_log[n].done
    /\ bankrupt_until[n] # 0
    /\ bankrupt_until[n] - bankrupcy_duration_days < spend_log[n].date
    /\ spend_log[n].date < bankrupt_until[n]

\* C11: from the tick a nation goes bankrupt until its bankrupt_until date the nation
\* cannot take loans on any day, debt spending switched on again or not, and a spending
\* pass it runs in that period borrows nothing and deducts no more than its treasury.
C11_NoLoansWhileBankrupt ==
    \A n \in Nations :
        /\ (bankrupt_until[n] # 0 /\ current_date < bankrupt_until[n]) => ~can_take_loans(n)
        /\ SpentWhileBarred(n) =>
               /\ ~spend_log[n].loans
               /\ spend_log[n].deducted <= spend_log[n].treasury
               /\ stockpiles_money[n] >= 0

\* a bankrupt nation switched debt spending on again, then ran a spending pass before its
\* bankrupt_until date whose cost was above its treasury: it spent the treasury and no more
C11_Witness ==
    \E n \in Nations :
        /\ SpentWhileBarred(n)
        /\ current_date < bankrupt_until[n]
        /\ is_debt_spending[n]
        /\ fiscal_phase = "pay"
        /\ spend_log[n].total > spend_log[n].treasury
        /\ spend_log[n].deducted = spend_log[n].treasury

\* what the two clearings of a day would have left had nation 2 been cleared before
\* nation 1: nation 2 sees the pools nation 1 saw, nation 1 what nation 2 leaves
SwappedClearing(c) ==
    LET seen1 == clear_log[1][c]
        seen2 == clear_log[2][c]
        p2 == [seen2 EXCEPT !.sl_pool = seen1.dom_pool, !.wm_pool = seen1.wm_pool]
        got2 == Taken(2, c, p2)
        p1 == [seen1 EXCEPT !.dom_pool = got2.sl, !.wm_pool = got2.wm]
        got1 == Taken(1, c, p1)
    IN  [sat |-> <<CapSat(NewSat(p1)), CapSat(NewSat(p2))>>,
         dom |-> <<got1.dom, got2.dom>>,
         sp |-> <<got1.sp, got2.sp>>,
         imports |-> <<got1.imports, got2.imports>>,
         wm |-> got1.wm]

\* what the two clearings of the day left, in the order of nations_by_rank
RankedClearing(c) ==
    [sat |-> <<direct_demand_satisfaction[1][c], direct_demand_satisfaction[2][c]>>,
     dom |-> <<domestic_market_pool[1][c], domestic_market_pool[2][c]>>,
     sp |-> <<stockpiles[1][c], stockpiles[2][c]>>,
     imports |-> <<imports[1][c], imports[2][c]>>,
     wm |-> global_market_pool[c]]

\* the two nations together ask no more of a pool they both draw on than it holds
Uncontended(c) ==
    LET together == clear_log[1][c].rd + clear_log[2][c].rd
    IN  together <= clear_log[1][c].dom_pool /\ together <= clear_log[1][c].wm_pool

LeftoverBound == Cardinality(Nations) * Qty

\* C19: the end of the clearing sets the global pool of every commodity to half of
\* what the clearing left plus the leftover domestic pools of all nations, and
\* empties every domestic pool; with at most LeftoverBound absorbed per tick the
\* global pool, empty at the start, never exceeds twice that bound.
C19_GlobalPoolDecay ==
    /\ [][market_phase = "end" =>
            /\ \A c \in Commodities :
                  /\ SumOver(Nations, LAMBDA n : domestic_market_pool[n][c]) <= LeftoverBound
                  /\ global_market_pool'[c] =
                         QuotT(global_market_pool[c], 2)
                         + SumOver(Nations, LAMBDA n : domestic_market_pool[n][c])
            /\ \A n \in Nations, c \in Commodities : domestic_market_pool'[n][c] = 0]_vars
    /\ [](\A c \in Commodities : global_market_pool[c] <= 2 * LeftoverBound)

\* after the second day's absorption the pool holds more than one day can add:
\* half of the first day's untouched leftover plus the second day's
C19_Witness ==
    /\ market_phase = "produce"
    /\ market_day = 2
    /\ global_market_pool[2] > LeftoverBound
    /\ \A n \in Nations : domestic_market_pool[n][2] = 0

\* the supply a logged clearing found in the nation's own pool, its sphere leader's
\* pool and its stockpile
DomesticSupplySeen(p) == p.dom_pool + p.sl_pool + p.sp_pool

\* C20 as stated: the effective price is the base price when the previous day's
\* demand fits in the preferred pool, and otherwise the base price with the
\* multiplier applied to the fraction of that demand the preferred pool cannot meet.
C20_BlendByUnmetFraction ==
    \A n \in Nations, c \in Commodities :
        LET p == clear_log[n][c]
            preferred == IF p.prefer_domestic THEN DomesticSupplySeen(p) ELSE p.wm_pool
            met == DivF(preferred, p.last_demand)
        IN  p.effective_price =
                IF p.last_demand <= preferred THEN current_price[c]
                ELSE MulF(current_price[c], met)
                     + MulF(MulF(current_price[c], Unit - met), global_market_price_multiplier(n))

\* C20: the effective price is the base price when the previous day's demand fits
\* in the preferred pool; otherwise the multiplier is applied to the global pool's
\* share of what the two pools can deliver of that demand, whichever pool is
\* preferred, and with no supply at all it is applied in full when the domestic
\* pool is preferred and not at all when the global pool is.
C20_BlendByGlobalShare ==
    \A n \in Nations, c \in Commodities :
        LET p == clear_log[n][c]
            supply == DomesticSupplySeen(p) + p.wm_pool
            preferred == IF p.prefer_domestic THEN DomesticSupplySeen(p) ELSE p.wm_pool
            deliverable == Min(p.last_demand, supply)
            global_share == IF p.prefer_domestic
                            THEN Unit - DivF(DomesticSupplySeen(p), deliverable)
                            ELSE DivF(p.wm_pool, deliverable)
        IN  p.effective_price =
                IF p.last_demand <= preferred THEN current_price[c]
                ELSE IF supply = 0
                THEN IF p.prefer_domestic
                     THEN MulF(current_price[c], global_market_price_multiplier(n))
                     ELSE current_price[c]
                ELSE MulF(current_price[c], Unit - global_share)
                     + MulF(MulF(current_price[c], global_share), global_market_price_multiplier(n))

\* a nation preferring the global pool whose demand of the day before exceeds it:
\* the discount is taken on the global pool's share
C20_Witness ==
    \E n \in Nations :
        LET p == clear_log[n][2]
        IN  /\ ~p.prefer_domestic
            /\ p.wm_pool > 0
            /\ p.last_demand > p.wm_pool
            /\ DomesticSupplySeen(p) > 0
            /\ p.effective_price < current_price[2]

\* C13: once a nation's update has paid its refunds, the refund of every category
\* (army, navy, construction, stockpile filling, overseas) is at most what the
\* spending pass deducted for that category.
C13_RefundWithinCharge ==
    fiscal_phase \in {"bankruptcy", "end"} =>
        \A n \in Nations :
            /\ refund_log[n].army <= spend_log[n].charged.army + RoundingSlack
            /\ refund_log[n].navy <= spend_log[n].charged.navy + RoundingSlack
            /\ refund_log[n].construction
                   <= spend_log[n].charged.construction + RoundingSlack
            /\ refund_log[n].fill <= spend_log[n].charged.fill + RoundingSlack
            /\ refund_log[n].overseas <= spend_log[n].charged.overseas + RoundingSlack

\* C13, the failing input: nation 1 holds an overseas province with the overseas
\* slider at 50 and gets a quarter of the good; it is refunded 7.5 for a line it
\* was charged 5.0 for.
C13_Failing ==
    /\ fiscal_phase = "bankruptcy"
    /\ overseas_provinces[1] = 1
    /\ overseas_spending[1] = 50
    /\ effective_prices[1][2] = current_price[2]
    /\ demand_satisfaction[1][2] = 250
    /\ spending_level[1] = Unit
    /\ spend_log[1].charged.overseas = 5 * Unit
    /\ refund_log[1].overseas = 7500

-----------------------------------------------------------------------------
(* The treasury specification: the budget specification for nations that own   *)
(* subsidized factories and pay each other war subsidies and reparations.      *)

\* a factory record; the minimum wage bill is 5.0 per level at full employment
Factory(production, profit, level) ==
    [actual_production |-> production, full_profit |-> profit, level |-> level,
     primary_employment |-> Unit, subsidized |-> TRUE]

\* nation -> its factories: shortfalls of 4.0 and 42.0, an idle factory, a factory
\* that earns its wages
FactorySamples ==
    {[n \in Nations |-> IF n = 1 THEN mine ELSE theirs] :
        mine \in {<<Factory(10 * Unit, Unit, 1), Factory(10 * Unit, -2 * Unit, 8)>>,
                  <<Factory(0, 0, 1), Factory(10 * Unit, 8 * Unit, 1)>>},
        theirs \in {<<Factory(10 * Unit, -2 * Unit, 8)>>}}

RelationshipSamples ==
    {<<[source |-> 1, target |-> 2, war_subsidies |-> TRUE, reparations |-> TRUE]>>,
     <<[source |-> 1, target |-> 2, war_subsidies |-> TRUE, reparations |-> FALSE],
       [source |-> 2, target |-> 1, war_subsidies |-> FALSE, reparations |-> TRUE]>>}

TreasuryInit ==
    FiscalStart({-20 * Unit, 3 * Unit, 30 * Unit},
                {[army |-> 40 * Unit, construction |-> 0, target |-> 0, overseas |-> 0,
                  o_spending |-> 100]},
                FactorySamples, RelationshipSamples)

SpecTreasury == TreasuryInit /\ [][FiscalNext]_vars

\* the entries of the factory production pass of nation n in this tick
SubsidyEntries(n) == {treasury_log[n].subsidy[i] : i \in DOMAIN treasury_log[n].subsidy}

\* C21 as stated: every subsidized factory whose profit is below its minimum wage
\* bill is paid the shortfall from the treasury, the same amount going to
\* subsidies_spending, when the treasury exceeds the shortfall or the nation can
\* take loans, and otherwise loses its subsidized flag with the treasury untouched.
C21_SubsidyPaidOrRefused ==
    \A n \in Nations :
        /\ subsidies_spending[n] = SumOver(SubsidyEntries(n), LAMBDA e : e.paid)
        /\ \A e \in SubsidyEntries(n) :
              e.was.subsidized /\ e.was.full_profit < e.min_wages =>
                  LET diff == e.min_wages - e.was.full_profit
                  IN  IF e.before > diff \/ e.loans
                      THEN e.treasury = e.before - diff /\ e.paid = diff
                      ELSE e.treasury = e.before /\ e.paid = 0 /\ ~e.fac.subsidized

\* C21: the same for a factory whose actual production of the tick is positive; a
\* factory that produced nothing is left as it is, subsidy and flag included.
C21_SubsidyPaidOrRefusedWhenProducing ==
    \A n \in Nations :
        /\ subsidies_spending[n] = SumOver(SubsidyEntries(n), LAMBDA e : e.paid)
        /\ \A e \in SubsidyEntries(n) :
              /\ e.was.actual_production > 0 /\ e.was.subsidized
                 /\ e.was.full_profit < e.min_wages =>
                     LET diff == e.min_wages - e.was.full_profit
                     IN  IF e.before > diff \/ e.loans
                         THEN /\ e.treasury = e.before - diff
                              /\ e.paid = diff
                              /\ e.fac.subsidized
                         ELSE /\ e.treasury = e.before
                              /\ e.paid = 0
                              /\ ~e.fac.subsidized
              /\ ~(e.was.actual_production > 0) =>
                     e.fac = e.was /\ e.treasury = e.before /\ e.paid = 0

\* in one pass a nation that cannot borrow is paid the small shortfall and refused
\* the large one
C21_Witness ==
    \E n \in Nations :
        /\ ~treasury_log[n].loans
        /\ \E e \in SubsidyEntries(n) : e.paid > 0 /\ e.before > e.paid /\ e.fac.subsidized
        /\ \E e \in SubsidyEntries(n) :
              e.refused /\ e.treasury = e.before /\ e.was.subsidized /\ ~e.fac.subsidized

\* the entries of the diplomatic expenses of this tick
DiplomaticEntries ==
    {treasury_log[1].diplomatic[i] : i \in DOMAIN treasury_log[1].diplomatic}

\* C27: the capped reparations payout is never negative, and reparations never
\* move money from the receiver to the payer.
C27_PayoutNeverNegative ==
    \A e \in DiplomaticEntries :
        e.reparations =>
            /\ e.capped_payout >= 0
            /\ e.after[e.source] <= e.treasury

\* a borrowing payer in debt: the payout is the payer's negative treasury
C27_Failing ==
    \E e \in DiplomaticEntries :
        /\ e.reparations
        /\ treasury_log[e.source].loans
        /\ e.treasury < 0
        /\ e.payout >= 0
        /\ e.capped_payout = e.treasury

\* C28: a nation that cannot take loans and starts the tick with a non-negative
\* treasury has a non-negative treasury at every point of the tick.
C28_NoDebtWithoutLoans ==
    \A n \in Nations :
        ~treasury_log[n].loans /\ treasury_log[n].start >= 0 => treasury_log[n].low >= 0

\* the receiver of reparations cannot borrow, starts the tick solvent and is
\* left in debt by a payer whose treasury is negative
C28_Failing ==
    \E e \in DiplomaticEntries :
        /\ e.reparations
        /\ e.capped_payout < 0
        /\ ~treasury_log[e.target].loans
        /\ treasury_log[e.target].start >= 0
        /\ e.after[e.target] < 0

\* the nation whose clearing ran last, 0 when none has run since the sharing
LastCleared ==
    IF market_phase = "end" THEN nations_by_rank[Len(nations_by_rank)]
    ELSE IF market_phase = "clear" /\ clear_next > 1 THEN nations_by_rank[clear_next - 1]
    ELSE 0

\* the four pools the clearing of n and c found, and what it left of them
PoolsBefore(n, c) ==
    LET p == clear_log[n][c]
    IN  [dom |-> p.dom_pool, sl |-> p.sl_pool, sp |-> p.sp_pool, wm |-> p.wm_pool]

PoolsAfter(n, c) ==
    LET sl == in_sphere_of(n)
    IN  [dom |-> domestic_market_pool[n][c],
         sl |-> IF sl # 0 THEN domestic_market_pool[sl][c] ELSE 0,
         sp |-> IF drawing_on_stockpiles[n][c] THEN stockpiles[n][c] ELSE 0,
         wm |-> global_market_pool[c]]

\* no pool grew, and a pool was reduced only when every pool before it in order is empty
DrawnInOrder(n, c, order) ==
    LET before == PoolsBefore(n, c)
        after == PoolsAfter(n, c)
    IN  /\ \A k \in DOMAIN order : after[order[k]] <= before[order[k]]
        /\ \A i, j \in DOMAIN order :
               (i < j /\ after[order[j]] < before[order[j]]) => after[order[i]] = 0

\* the demand was met as far as the four pools together allow
DrawnAmount(n, c) ==
    LET before == PoolsBefore(n, c)
        after == PoolsAfter(n, c)
        drawn == (before.dom - after.dom) + (before.sl - after.sl)
                 + (before.sp - after.sp) + (before.wm - after.wm)
    IN  drawn = Min(clear_log[n][c].rd, before.dom + before.sl + before.sp + before.wm)

\* C12 as the specification states it: domestic, sphere leader, stockpile, global pool
\* when the multiplier is at least 1, and exactly the reverse order when it is below 1.
C12_ReverseOrder ==
    \A c \in Commodities :
        LastCleared # 0 =>
            IF clear_log[LastCleared][c].prefer_domestic
            THEN DrawnInOrder(LastCleared, c, <<"dom", "sl", "sp", "wm">>)
            ELSE DrawnInOrder(LastCleared, c, <<"wm", "sp", "sl", "dom">>)

\* C12: the clearing of a nation and a commodity draws the demand from the domestic
\* pool, the sphere leader's pool, the national stockpile (when drawing on it) and the
\* global pool in this order when the global price multiplier is at least 1; when it is
\* below 1 the global pool moves to the front and the others keep their order: global,
\* domestic, sphere leader, stockpile.  A later pool is touched only when the earlier
\* ones are empty, and together the pools give min(demand, total supply).
C12_DrawOrder ==
    \A c \in Commodities :
        LastCleared # 0 =>
            /\ IF clear_log[LastCleared][c].prefer_domestic
               THEN DrawnInOrder(LastCleared, c, <<"dom", "sl", "sp", "wm">>)
               ELSE DrawnInOrder(LastCleared, c, <<"wm", "dom", "sl", "sp">>)
            /\ DrawnAmount(LastCleared, c)

\* with the multiplier below 1 a clearing emptied the global pool and went on to the
\* domestic pool while the stockpile it draws on was still untouched
C12_Witness ==
    \E c \in Commodities :
        /\ LastCleared # 0
        /\ ~clear_log[LastCleared][c].prefer_domestic
        /\ PoolsBefore(LastCleared, c).wm > 0
        /\ PoolsAfter(LastCleared, c).wm = 0
        /\ PoolsAfter(LastCleared, c).dom < PoolsBefore(LastCleared, c).dom
        /\ PoolsBefore(LastCleared, c).sp > 0
        /\ PoolsAfter(LastCleared, c).sp = PoolsBefore(LastCleared, c).sp

\* C29: the clearing of a nation and a commodity conserves goods: what left the
\* domestic pool, the sphere leader's pool, the stockpile and the global pool
\* together is min(real demand, total supply), no pool is negative afterwards, and
\* the imports recorded are what left the global pool, whichever pool is preferred.
C29_ClearingConservesGoods ==
    \A c \in Commodities :
        LastCleared # 0 =>
            LET before == PoolsBefore(LastCleared, c)
                after == PoolsAfter(LastCleared, c)
            IN  /\ DrawnAmount(LastCleared, c)
                /\ after.dom >= 0 /\ after.sl >= 0 /\ after.sp >= 0 /\ after.wm >= 0
                /\ stockpiles[LastCleared][c] >= 0
                /\ imports[LastCleared][c] = before.wm - after.wm

\* C29 witness: a sphere member preferring its domestic pool asked for more than
\* its own pool, its leader's pool and its stockpile held; all three were emptied
\* and the rest, less than the global pool, was imported
C29_Witness ==
    \E c \in Commodities :
        /\ LastCleared # 0
        /\ in_sphere_of(LastCleared) # 0
        /\ clear_log[LastCleared][c].prefer_domestic
        /\ PoolsBefore(LastCleared, c).dom > 0
        /\ PoolsBefore(LastCleared, c).sl > 0
        /\ PoolsBefore(LastCleared, c).sp > 0
        /\ PoolsAfter(LastCleared, c).dom = 0
        /\ PoolsAfter(LastCleared, c).sl = 0
        /\ PoolsAfter(LastCleared, c).sp = 0
        /\ PoolsAfter(LastCleared, c).wm > 0
        /\ imports[LastCleared][c] > 0

-----------------------------------------------------------------------------
(* Resource gathering operations (rgo) of one land province of nation 1 *)

MaxRgoDays == 3

\* state.defines, as far as the rgo and factory updates read it
defines ==
    [alice_rgo_per_size_employment |-> 40 * Unit,
     alice_base_rgo_employment_bonus |-> 20 * Unit,
     alice_base_rgo_efficiency_bonus |-> Unit,
     alice_rgo_boost |-> Unit,
     alice_factory_per_level_employment |-> 100 * Unit,
     alice_inputs_base_factor |-> Unit]

\* What stays fixed about the province: its main rgo good, its size, the size each good
\* may reach, the capitalists' share of the land, the base output of a good
\* (commodity_get_rgo_amount), and 1 + the throughput and 1 + the output modifiers.
rgo_province ==
    [rgo |-> 1,
     rgo_size |-> Unit,
     rgo_max_size_per_good |-> [c \in Commodities |-> Unit],
     capitalists_share |-> 0,
     rgo_amount |-> [c \in Commodities |-> Unit],
     throughput |-> Unit,
     output |-> Unit]

rgo_ownership == landowners_share + rgo_province.capitalists_share

subsistence_size == MulF(MulF(rgo_province.rgo_size, Unit - rgo_ownership), 2 * Unit)

rgo_effective_size(c) ==
    LET base == IF rgo_province.rgo = c
                THEN DivF(defines.alice_base_rgo_employment_bonus, defines.alice_rgo_per_size_employment)
                ELSE 0
        sz == MulF(rgo_province.rgo_max_size_per_good[c], rgo_ownership) + base
        bonus == rgo_size_modifier[c] + Unit
    IN  Max(MulF(sz, bonus), 0)

subsistence_max_pseudoemployment ==
    MulF(MulF(defines.alice_rgo_per_size_employment, subsistence_size), 1100)

rgo_total_employment == SumOver(Commodities, LAMBDA c : rgo_employment_per_good[c])

rgo_max_employment(c) == MulF(defines.alice_rgo_per_size_employment, rgo_effective_size(c))

rgo_efficiency(c) ==
    LET main_rgo == IF rgo_province.rgo = c THEN defines.alice_base_rgo_efficiency_bonus ELSE Unit
        saturation == DivF(rgo_employment_per_good[c], rgo_max_employment(c) + Unit)
    IN  MulF(MulF(MulF(MulF(MulF(rgo_province.rgo_amount[c], main_rgo), Unit + (Unit - saturation)),
                       Max(500, rgo_province.throughput)),
                  defines.alice_rgo_boost),
             Max(500, rgo_province.output))

rgo_full_production_quantity(c) == MulF(rgo_effective_size(c), rgo_efficiency(c))

\* paid workers, and the slaves counted by their employment key
rgo_relevant_population ==
    LET paid_workers == province_demographics.workers
        slaves == MulF(province_demographics.slaves, rgo_raw_employment.slaves)
    IN  [paid_workers |-> paid_workers, slaves |-> slaves, total |-> paid_workers + slaves]

\* Wages and the owners' cut per worker come from the needs costs of the nation's pops;
\* they enter here as desired_profit_by_worker.  The scaling by employment is the code's.
rgo_desired_worker_norm_profit(desired_profit_by_worker, total_relevant_population) ==
    LET current_employment == rgo_total_employment
        employment_ratio == DivF(current_employment, total_relevant_population + Unit)
    IN  MulF(desired_profit_by_worker, employment_ratio)

\* (total_consumption + 0.0001) / (total_production + 0.0001) is 1 or more when nothing
\* was produced
rgo_expected_worker_norm_profit(c) ==
    LET efficiency == rgo_efficiency(c)
        consumed_ratio ==
            IF money_rgo(c) \/ total_production[c] = 0 THEN Unit
            ELSE Min(Unit, DivF(total_consumption[c], total_production[c]))
    IN  DivF(MulF(MulF(consumed_ratio, efficiency), current_price[c]),
             defines.alice_rgo_per_size_employment)

labor_pool == province_demographics.workers + province_demographics.slaves

\* the goods update_rgo_employment puts in ordered_list
EligibleGoods == {c \in Commodities : rgo_max_employment(c) > 0}

\* the eligible goods in any arrangement, sorted or not
unsorted_lists ==
    LET k == Cardinality(EligibleGoods)
    IN  {o \in [1 .. k -> EligibleGoods] : \A i, j \in 1 .. k : i # j => o[i] # o[j]}

\* what std::sort may leave in ordered_list: every arrangement of the eligible goods in
\* which no good comes after one of strictly lower expected profit
ordered_lists ==
    LET k == Cardinality(EligibleGoods)
    IN  {o \in [1 .. k -> EligibleGoods] :
            /\ \A i, j \in 1 .. k : i # j => o[i] # o[j]
            /\ \A i, j \in 1 .. k :
                   i < j => ~(rgo_expected_worker_norm_profit(o[j])
                                > rgo_expected_worker_norm_profit(o[i]))}

NewEmploymentUncapped(current_workforce, target_workforce, total_workforce) ==
    LET speed == 200
    IN  MulF(current_workforce, Unit - speed) + MulF(target_workforce, speed)

NewEmployment(current_workforce, target_workforce, total_workforce) ==
    LET speed == 200
    IN  Min(MulF(current_workforce, Unit - speed) + MulF(target_workforce, speed),
            total_workforce)

\* the loop over ordered_list: goods from position i on, with total_workforce workers left
RECURSIVE DistributeWorkers(_, _, _, _)
DistributeWorkers(order, i, total_workforce, employment) ==
    IF i > Cardinality(EligibleGoods)
    THEN [employment |-> employment, total_workforce |-> total_workforce]
    ELSE LET c == order[i]
             max_employment == rgo_max_employment(c)
             target_workforce == Min(rgo_target_employment_per_good[c], total_workforce)
             current_workforce == rgo_employment_per_good[c]
             new_employment == NewEmployment(current_workforce, target_workforce,
                                             total_workforce)
         IN  DistributeWorkers(order, i + 1, total_workforce - new_employment,
                 [employment EXCEPT ![c] = Clamp(new_employment, 0, max_employment)])

\* update_rgo_employment for the province
UpdateRgoEmployment(order) ==
    /\ rgo_phase = "employment"
    /\ order \in ordered_lists
    /\ LET current_employment == rgo_total_employment + subsistence_employment
           worker_pool == province_demographics.workers
           slave_pool == province_demographics.slaves
           distributed ==
               DistributeWorkers(order, 1, labor_pool,
                   [c \in Commodities |->
                       IF c \in EligibleGoods THEN rgo_employment_per_good[c] ELSE 0])
           subsistence == Min(subsistence_max_pseudoemployment, distributed.total_workforce)
           max_employment_total == SumOver(EligibleGoods, rgo_max_employment)
           total_employed ==
               SumOver(EligibleGoods, LAMBDA c : distributed.employment[c]) + subsistence
           employment_ratio ==
               IF max_employment_total > Unit
               THEN DivF(total_employed, max_employment_total + Unit)
               ELSE Unit
           slave_fraction ==
               IF slave_pool > current_employment
               THEN DivF(current_employment, slave_pool)
               ELSE Unit
           free_fraction ==
               Max(0, IF worker_pool > current_employment - slave_pool
                      THEN DivF(current_employment - slave_pool, Max(worker_pool, 10))
                      ELSE Unit)
       IN  /\ rgo_employment_per_good' = distributed.employment
           /\ subsistence_employment' = subsistence
           /\ rgo_employment' = employment_ratio
           /\ rgo_raw_employment' = [slaves |-> slave_fraction, workers |-> free_fraction]
           /\ rgo_log' = [done |-> TRUE, before |-> current_employment,
                          labor_pool |-> labor_pool, order |-> order,
                          targets |-> rgo_target_employment_per_good]
    /\ rgo_phase' = "consumption"
    /\ UNCHANGED <<rgo_target_employment_per_good, rgo_actual_production_per_good,
                   province_demographics, landowners_share, rgo_size_modifier, rgo_day>>
    /\ UNCHANGED notRgo

\* a * b as MulF gives it, for an a too large to multiply in one step
MulWide(a, b) ==
    IF a >= 0 THEN (a \div Unit) * b + ((a % Unit) * b) \div Unit
    ELSE -(((-a) \div Unit) * b + (((-a) % Unit) * b) \div Unit)

\* The target update_province_rgo_consumption gives commodity c.  The code adds 0.00000001
\* to both profits before dividing; a profit of 0 on the grid against a positive one makes
\* the quotient, and with it the change, larger than any employment.
RgoTargetEmployment(c, desired_profit) ==
    LET max_production == rgo_full_production_quantity(c)
        pops_max == rgo_max_employment(c)
        current_employment == rgo_employment_per_good[c]
        expected_profit == rgo_expected_worker_norm_profit(c)
        positive_speed ==
            IF desired_profit = 0 THEN 0 ELSE DivF(expected_profit, desired_profit) - Unit
        negative_speed ==
            IF expected_profit = 0 THEN 0 ELSE DivF(desired_profit, expected_profit) - Unit
        change == DivF(positive_speed - negative_speed, rgo_effective_size(c))
        discrete_step == (IF expected_profit - desired_profit > 0 THEN Unit ELSE -Unit) * 20
        new_employment ==
            current_employment
            + QuotT(MulWide(DivF(change, max_production), pops_max), 100) + discrete_step
    IN  IF desired_profit = 0 /\ expected_profit > 0 THEN pops_max
        ELSE IF expected_profit = 0 /\ desired_profit > 0 THEN 0
        ELSE Clamp(new_employment, 0, pops_max)

DesiredProfitSamples == {20, Unit}

\* update_province_rgo_consumption for the province
UpdateProvinceRgoConsumption(desired_profit_by_worker) ==
    /\ rgo_phase = "consumption"
    /\ LET rgo_pops == rgo_relevant_population
           desired_profit ==
               rgo_desired_worker_norm_profit(desired_profit_by_worker, rgo_pops.total)
           skipped(c) == rgo_full_production_quantity(c) < 1
           employment_ratio(c) == DivF(rgo_employment_per_good[c], rgo_max_employment(c))
       IN  /\ rgo_target_employment_per_good' =
                  [c \in Commodities |->
                      IF skipped(c) THEN rgo_target_employment_per_good[c]
                      ELSE RgoTargetEmployment(c, desired_profit)]
           /\ rgo_actual_production_per_good' =
                  [c \in Commodities |->
                      IF skipped(c) THEN rgo_actual_production_per_good[c]
                      ELSE MulF(rgo_full_production_quantity(c), employment_ratio(c))]
    /\ rgo_phase' = "province"
    /\ UNCHANGED <<rgo_employment_per_good, subsistence_employment, rgo_employment,
                   rgo_raw_employment, province_demographics, landowners_share,
                   rgo_size_modifier, rgo_day, rgo_log>>
    /\ UNCHANGED notRgo

\* What the rest of the day does to the province: pops grow, move and change type, land
\* changes hands (update_land_ownership), modifiers come and go.
ProvinceSamples ==
    { [workers |-> 80 * Unit, slaves |-> 20 * Unit, total |-> 120 * Unit,
       landowners_share |-> 500, rgo_size_modifier |-> [c \in Commodities |-> 0]],
      [workers |-> 3 * Unit, slaves |-> 0, total |-> 5 * Unit,
       landowners_share |-> 500, rgo_size_modifier |-> [c \in Commodities |-> 0]],
      [workers |-> 0, slaves |-> 0, total |-> 0,
       landowners_share |-> 500, rgo_size_modifier |-> [c \in Commodities |-> 0]],
      [workers |-> 30 * Unit, slaves |-> 0, total |-> 40 * Unit,
       landowners_share |-> 0, rgo_size_modifier |-> [c \in Commodities |-> 0]],
      [workers |-> 20 * Unit, slaves |-> 10 * Unit, total |-> 40 * Unit,
       landowners_share |-> Unit,
       rgo_size_modifier |-> [c \in Commodities |-> IF c = 1 THEN -1500 ELSE 0]] }

ProvinceChanges(sample) ==
    /\ rgo_phase = "province"
    /\ rgo_day < MaxRgoDays
    /\ province_demographics' = [workers |-> sample.workers, slaves |-> sample.slaves,
                                 total |-> sample.total]
    /\ landowners_share' = sample.landowners_share
    /\ rgo_size_modifier' = sample.rgo_size_modifier
    /\ rgo_day' = rgo_day + 1
    /\ rgo_phase' = "employment"
    /\ UNCHANGED <<rgo_employment_per_good, rgo_target_employment_per_good,
                   rgo_actual_production_per_good, subsistence_employment, rgo_employment,
                   rgo_raw_employment, rgo_log>>
    /\ UNCHANGED notRgo

\* the province as initialize leaves it: nobody employed, no targets
RgoInit ==
    /\ PriceParked
    /\ MarketParked
    /\ FiscalParked
    /\ FactoryParked
    /\ ParallelParked
    /\ ConstructionParked
    /\ TreasuryParked
    /\ ConsumptionParked
    /\ EmploymentParked
    /\ CountParked
    /\ global_market_pool = [c \in Commodities |-> 0]
    /\ real_demand = [n \in Nations |-> [c \in Commodities |-> 0]]
    /\ domestic_market_pool = [n \in Nations |-> [c \in Commodities |-> 0]]
    /\ demand_satisfaction = [n \in Nations |-> [c \in Commodities |-> Unit]]
    /\ rgo_employment_per_good = [c \in Commodities |-> 0]
    /\ rgo_target_employment_per_good = [c \in Commodities |-> 0]
    /\ rgo_actual_production_per_good = [c \in Commodities |-> 0]
    /\ subsistence_employment = 0
    /\ rgo_employment = 0
    /\ rgo_raw_employment = [slaves |-> 0, workers |-> 0]
    /\ \E sample \in ProvinceSamples :
           /\ province_demographics = [workers |-> sample.workers, slaves |-> sample.slaves,
                                       total |-> sample.total]
           /\ landowners_share = sample.landowners_share
           /\ rgo_size_modifier = sample.rgo_size_modifier
    /\ rgo_phase = "employment"
    /\ rgo_day = 1
    /\ rgo_log = [done |-> FALSE]

RgoNext ==
    \/ \E order \in UNION {[1 .. k -> Commodities] : k \in 0 .. Cardinality(Commodities)} :
           UpdateRgoEmployment(order)
    \/ \E desired_profit_by_worker \in DesiredProfitSamples :
           UpdateProvinceRgoConsumption(desired_profit_by_worker)
    \/ \E sample \in ProvinceSamples : ProvinceChanges(sample)

SpecRgo == RgoInit /\ [][RgoNext]_vars

\* what good number i of the order is given before the clamp, with pool workers
\* left for it: min(0.8 x current + 0.2 x min(target, pool), pool)
GivenTo(order, i, pool) ==
    LET c == order[i]
        blend == (8 * rgo_employment_per_good[c]) \div 10
                 + (2 * Min(rgo_target_employment_per_good[c], pool)) \div 10
    IN  Min(blend, pool)

\* the workforce left for good number i of the order
RECURSIVE RemainingWorkforce(_, _)
RemainingWorkforce(order, i) ==
    IF i = 1 THEN labor_pool
    ELSE RemainingWorkforce(order, i - 1)
         - GivenTo(order, i - 1, RemainingWorkforce(order, i - 1))

\* C25: update_rgo_employment takes the goods with positive max employment in
\* descending order of expected worker-normalized profit; each is given
\* min(0.8 x current + 0.2 x min(target, remaining), remaining) clamped to
\* [0, max employment] and the remaining workforce drops by what it was given;
\* what remains at the end goes to subsistence up to the subsistence capacity,
\* and a good with zero max employment gets employment 0.
C25_GreedyByProfit ==
    [][rgo_phase = "employment" =>
          LET order == rgo_log'.order
              k == Len(order)
          IN  /\ {order[i] : i \in 1 .. k} = {c \in Commodities : rgo_max_employment(c) > 0}
              /\ \A i, j \in 1 .. k :
                     i < j => rgo_expected_worker_norm_profit(order[i])
                                  >= rgo_expected_worker_norm_profit(order[j])
              /\ \A i \in 1 .. k :
                     rgo_employment_per_good'[order[i]] =
                         Clamp(GivenTo(order, i, RemainingWorkforce(order, i)), 0,
                               rgo_max_employment(order[i]))
              /\ \A c \in Commodities :
                     rgo_max_employment(c) <= 0 => rgo_employment_per_good'[c] = 0
              /\ subsistence_employment' =
                     Min(subsistence_max_pseudoemployment, RemainingWorkforce(order, k + 1))
      ]_vars

\* C25 witness: two goods of different expected profit were served; the first took
\* part of the pool, the second was cut to the workforce the first left, and
\* nothing remained for subsistence
C25_Witness ==
    /\ rgo_phase = "consumption"
    /\ rgo_log.done
    /\ Len(rgo_log.order) = 2
    /\ rgo_expected_worker_norm_profit(rgo_log.order[1])
           > rgo_expected_worker_norm_profit(rgo_log.order[2])
    /\ rgo_employment_per_good[rgo_log.order[1]] > 0
    /\ rgo_employment_per_good[rgo_log.order[2]] > 0
    /\ rgo_employment_per_good[rgo_log.order[2]] < (2 * rgo_log.targets[rgo_log.order[2]]) \div 10
    /\ subsistence_employment = 0

\* the workers the province has at work or on subsistence
RgoTotalEmployed == rgo_total_employment + subsistence_employment

\* C4: right after update_rgo_employment the employment of all rgo goods of the province
\* plus its subsistence employment is no more than the labor pool (paid rgo workers plus
\* slaves), none of the amounts is negative, and each good stays within its capacity;
\* this holds whatever the employment and the targets were before and whatever the labor
\* pool has become since the previous tick.
C4_EmploymentWithinPool ==
    rgo_phase = "consumption" =>
        /\ RgoTotalEmployed <= labor_pool
        /\ subsistence_employment >= 0
        /\ \A c \in Commodities :
               /\ rgo_employment_per_good[c] >= 0
               /\ rgo_employment_per_good[c] <= rgo_max_employment(c)

\* the update ran on a province whose labor pool had shrunk below the workers employed
\* before and below the target of a good: that good took the whole pool and nothing was
\* left for subsistence
C4_Witness ==
    /\ rgo_phase = "consumption"
    /\ rgo_log.done
    /\ labor_pool > 0
    /\ rgo_log.before > labor_pool
    /\ \E c \in EligibleGoods :
           /\ rgo_log.targets[c] > labor_pool
           /\ rgo_employment_per_good[c] = labor_pool
    /\ subsistence_employment = 0

-----------------------------------------------------------------------------
(* One factory of nation 1: update_single_factory_consumption *)

MaxFactoryDays == 3

FactoryOwner == 1

\* The factory type: it turns commodity 1 into commodity 2 and takes commodity 1 as an
\* efficiency input as well.  An amount of 0 means the commodity is not on the list.
factory_type ==
    [output |-> 2,
     output_amount |-> 2 * Unit,
     inputs |-> [c \in Commodities |-> IF c = 1 THEN Unit ELSE 0],
     efficiency_inputs |-> [c \in Commodities |-> IF c = 1 THEN 200 ELSE 0]]

InputGoods == {c \in Commodities : factory_type.inputs[c] > 0}
EfficiencyInputGoods == {c \in Commodities : factory_type.efficiency_inputs[c] > 0}

\* The state instance the factory stands in: its head counts, and the share of primary
\* workers in a factory's staff (economy_definitions.craftsmen_fraction).
factory_site ==
    [total_population |-> 1000 * Unit,
     capitalists |-> 10 * Unit,
     craftsmen_fraction |-> 800]

\* 1 + the throughput modifiers of nation and province, all absent
factory_throughput_multiplier == Unit

factory_max_employment == defines.alice_factory_per_level_employment * factory.level

factory_min_input_available ==
    LET RECURSIVE Least(_, _)
        Least(S, m) == IF S = {} THEN m
                       ELSE LET c == CHOOSE x \in S : TRUE
                            IN  Least(S \ {c}, Min(m, demand_satisfaction[FactoryOwner][c]))
    IN  Least(InputGoods, Unit)

factory_input_total_cost ==
    SumOver(InputGoods,
            LAMBDA c : MulF(factory_type.inputs[c], effective_prices[FactoryOwner][c]))

factory_min_e_input_available ==
    LET RECURSIVE Least(_, _)
        Least(S, m) == IF S = {} THEN m
                       ELSE LET c == CHOOSE x \in S : TRUE
                            IN  Least(S \ {c}, Min(m, demand_satisfaction[FactoryOwner][c]))
    IN  Least(EfficiencyInputGoods, Unit)

factory_e_input_total_cost ==
    SumOver(EfficiencyInputGoods,
            LAMBDA c : MulF(factory_type.efficiency_inputs[c],
                            effective_prices[FactoryOwner][c]))

factory_input_multiplier ==
    LET total_workers == factory_max_employment
        small_bound == defines.alice_factory_per_level_employment * 5
        small_size_effect ==
            IF total_workers < small_bound
            THEN 500 + MulF(DivF(total_workers, small_bound), 500)
            ELSE Unit
        total_state_pop == Max(10, factory_site.total_population)
        owner_fraction == IF total_state_pop > 0
                          THEN Min(50, DivF(factory_site.capitalists, total_state_pop))
                          ELSE 0
    IN  MulF(MulF(small_size_effect, factory.triggered_modifiers),
             Max(100, defines.alice_inputs_base_factor + MulF(owner_fraction, -2500)))

factory_output_multiplier ==
    MulF(MulF(factory.secondary_employment, Unit - factory_site.craftsmen_fraction), 1500)
    + Unit

factory_max_production_scale_staffed(mobilization_impact, occupied) ==
    MulF(MulF(factory.level * Unit, IF occupied THEN 100 ELSE Unit),
         Max(0, mobilization_impact))

factory_max_production_scale(mobilization_impact, occupied) ==
    MulF(MulF(factory.primary_employment * factory.level,
              IF occupied THEN 100 ELSE Unit),
         Max(0, mobilization_impact))

factory_desired_raw_profit(spendings) ==
    MulF(spendings, 1200 + (factory.secondary_employment * factory.level) \div 150)


\* a / (b + 0.0001): the added term is a tenth of the grid step and only counts when b is 0
DivSmall(a, b) == IF b = 0 THEN a * 10000 ELSE DivF(a, b)

update_factory_scale_unclamped(max_production_scale, raw_profit, desired_raw_profit) ==
    LET total_workers == factory_max_employment
        several_workers_scale == DivF(10 * Unit, total_workers)
        relative_production_amount ==
            DivF(factory_type.output_amount,
                 total_production[factory_type.output] + total_real_demand[factory_type.output]
                 + 10 * Unit)
        relative_modifier == QuotT(DivF(Unit, relative_production_amount + 10), 1000)
        over_profit_ratio == DivSmall(raw_profit, desired_raw_profit) - Unit
        under_profit_ratio == DivSmall(desired_raw_profit, raw_profit) - Unit
        speed_modifier == over_profit_ratio - under_profit_ratio
        \* declared outside economy.cpp; with any positive value the speed has the sign of
        \* the profit gap and at least the size of several_workers_scale
        production_scale_delta == 100
        speed == MulWide(speed_modifier, production_scale_delta)
                 + several_workers_scale
                   * (IF raw_profit - desired_raw_profit > 0 THEN 1 ELSE -1)
        new_production_scale ==
            IF factory.subsidized
            THEN factory.production_scale + several_workers_scale * factory.level * 10
            ELSE factory.production_scale
                 + Clamp(speed, -relative_modifier, relative_modifier)
    IN  [production_scale |-> new_production_scale,
         effective_production_scale |->
             Min(new_production_scale * factory.level, max_production_scale)]

\* update_factory_scale: the new production_scale of the factory and the value returned
update_factory_scale(max_production_scale, raw_profit, desired_raw_profit) ==
    LET total_workers == factory_max_employment
        several_workers_scale == DivF(10 * Unit, total_workers)
        relative_production_amount ==
            DivF(factory_type.output_amount,
                 total_production[factory_type.output] + total_real_demand[factory_type.output]
                 + 10 * Unit)
        relative_modifier == QuotT(DivF(Unit, relative_production_amount + 10), 1000)
        over_profit_ratio == DivSmall(raw_profit, desired_raw_profit) - Unit
        under_profit_ratio == DivSmall(desired_raw_profit, raw_profit) - Unit
        speed_modifier == over_profit_ratio - under_profit_ratio
        \* declared outside economy.cpp; with any positive value the speed has the sign of
        \* the profit gap and at least the size of several_workers_scale
        production_scale_delta == 100
        speed == MulWide(speed_modifier, production_scale_delta)
                 + several_workers_scale
                   * (IF raw_profit - desired_raw_profit > 0 THEN 1 ELSE -1)
        new_production_scale ==
            IF factory.subsidized
            THEN Min(Unit, factory.production_scale
                           + several_workers_scale * factory.level * 10)
            ELSE Clamp(factory.production_scale
                       + Clamp(speed, -relative_modifier, relative_modifier), 0, Unit)
    IN  [production_scale |-> new_production_scale,
         effective_production_scale |->
             Min(new_production_scale * factory.level, max_production_scale)]

\* what update_single_factory_consumption computes before it writes anything
FactoryConsumption(mobilization_impact, expected_min_wage, occupied) ==
    LET max_production_scale == factory_max_production_scale(mobilization_impact, occupied)
        input_total == factory_input_total_cost
        min_input_available == factory_min_input_available
        e_input_total == factory_e_input_total_cost
        min_e_input_available == factory_min_e_input_available
        input_multiplier == factory_input_multiplier
        throughput_multiplier == factory_throughput_multiplier
        output_multiplier == factory_output_multiplier
        mfactor == Unit
        total_production_ ==
            MulF(MulF(MulF(MulF(factory_type.output_amount, 750 + MulF(250, min_e_input_available)),
                           throughput_multiplier),
                      output_multiplier),
                 min_input_available)
        profit == MulF(total_production_, current_price[factory_type.output])
        spendings ==
            MulF(expected_min_wage,
                 DivF(defines.alice_factory_per_level_employment, alice_needs_scaling_factor))
            + MulF(MulF(MulF(input_multiplier, throughput_multiplier), input_total),
                   min_input_available)
            + MulF(MulF(MulF(MulF(input_multiplier, mfactor), e_input_total),
                        min_e_input_available),
                   min_input_available)
        desired_profit == factory_desired_raw_profit(spendings)
        max_pure_profit == profit - spendings
        scale == update_factory_scale(max_production_scale, profit, desired_profit)
        effective_production_scale == scale.effective_production_scale
        input_scale ==
            MulF(MulF(MulF(input_multiplier, throughput_multiplier),
                      effective_production_scale),
                 100 + MulF(min_input_available, 900))
    IN  [max_production_scale |-> max_production_scale,
         profit |-> profit,
         spendings |-> spendings,
         max_pure_profit |-> max_pure_profit,
         production_scale |-> scale.production_scale,
         effective_production_scale |-> effective_production_scale,
         input_demand |->
             [c \in Commodities |->
                 IF c \in InputGoods THEN MulF(input_scale, factory_type.inputs[c]) ELSE 0],
         e_input_demand |->
             [c \in Commodities |->
                 IF c \in EfficiencyInputGoods
                 THEN MulF(MulF(MulF(mfactor, input_scale), factory_type.efficiency_inputs[c]),
                           100 + MulF(min_e_input_available, 900))
                 ELSE 0],
         actual_production |-> MulF(total_production_, effective_production_scale),
         pure_profit |-> MulF(max_pure_profit, effective_production_scale)]

\* daily_update for the owner, up to the consumption updates: gdp and demand start at zero
StartFactoryTick ==
    /\ factory_phase = "start"
    /\ gdp' = [gdp EXCEPT ![FactoryOwner] = 0]
    /\ real_demand' = [real_demand EXCEPT ![FactoryOwner] = [c \in Commodities |-> 0]]
    /\ intermediate_demand' =
           [intermediate_demand EXCEPT ![FactoryOwner] = [c \in Commodities |-> 0]]
    /\ factory_phase' = "consumption"
    /\ UNCHANGED <<factory, demand_satisfaction, factory_day, factory_log>>
    /\ UNCHANGED notFactory

\* update_single_factory_consumption
UpdateSingleFactoryConsumption(mobilization_impact, expected_min_wage, occupied) ==
    /\ factory_phase = "consumption"
    /\ \E r \in {FactoryConsumption(mobilization_impact, expected_min_wage, occupied)} :
       LET registered(c) == r.input_demand[c] + r.e_input_demand[c]
           \* the gdp register_intermediate_demand takes off for amount of commodity c
           IntermediateValue(c, amount) ==
               MulF(MulF(amount, current_price[c]), demand_satisfaction[FactoryOwner][c])
       IN  /\ factory' = [factory EXCEPT
                  !.unprofitable = ~(r.max_pure_profit > 0),
                  !.production_scale = r.production_scale,
                  !.actual_production = r.actual_production,
                  !.full_profit = r.pure_profit]
           /\ real_demand' = [real_demand EXCEPT ![FactoryOwner] =
                  [c \in Commodities |-> real_demand[FactoryOwner][c] + registered(c)]]
           /\ intermediate_demand' = [intermediate_demand EXCEPT ![FactoryOwner] =
                  [c \in Commodities |->
                      intermediate_demand[FactoryOwner][c] + registered(c)]]
           /\ gdp' = [gdp EXCEPT ![FactoryOwner] =
                  gdp[FactoryOwner]
                  - SumOver(InputGoods, LAMBDA c : IntermediateValue(c, r.input_demand[c]))
                  - SumOver(EfficiencyInputGoods,
                            LAMBDA c : IntermediateValue(c, r.e_input_demand[c]))]
           /\ factory_log' = [done |-> TRUE,
                              primary_employment |-> factory.primary_employment,
                              subsidized |-> factory.subsidized,
                              profit |-> r.profit,
                              spendings |-> r.spendings,
                              max_production_scale |-> r.max_production_scale,
                              effective_production_scale |-> r.effective_production_scale]
    /\ factory_phase' = "market"
    /\ UNCHANGED <<demand_satisfaction, factory_day>>
    /\ UNCHANGED notFactory

\* the arguments daily_update passes: mobilization impact, minimum wage, occupation
ConsumptionSamples ==
    { [mobilization_impact |-> Unit, expected_min_wage |-> 10, occupied |-> FALSE],
      [mobilization_impact |-> 500, expected_min_wage |-> 50, occupied |-> TRUE],
      [mobilization_impact |-> Unit, expected_min_wage |-> 50, occupied |-> FALSE] }

SatisfactionSamples == {0, 500, Unit}

\* What the rest of the day does to the factory's surroundings: the market sets the
\* satisfaction of its input, the owner grants or withdraws the subsidy.
FactoryMarket(sat, subsidized) ==
    /\ factory_phase = "market"
    /\ factory_day < MaxFactoryDays
    /\ demand_satisfaction' = [demand_satisfaction EXCEPT ![FactoryOwner] =
           [c \in Commodities |-> IF c \in InputGoods THEN sat ELSE @[c]]]
    /\ factory' = [factory EXCEPT !.subsidized = subsidized]
    /\ factory_day' = factory_day + 1
    /\ factory_phase' = "employment"
    /\ UNCHANGED <<real_demand, intermediate_demand, gdp, factory_log>>
    /\ UNCHANGED notFactory

\* update_factory_employment for the state of the factory, the only factory of the
\* state: primary_pool and secondary_pool are the craftsmen and clerks of the state
UpdateFactoryEmployment(primary_pool, secondary_pool) ==
    /\ factory_phase = "employment"
    /\ LET employment_shift_speed == 1
           total_workforce == MulF(factory_max_employment, factory.production_scale)
           primary_share == MulF(factory_site.craftsmen_fraction, total_workforce)
           secondary_share == MulF(Unit - factory_site.craftsmen_fraction, total_workforce)
           scale(pool, type_share) ==
               IF pool >= type_share THEN Unit ELSE DivF(pool, type_share)
           new_employment(old_employment, pool, type_share) ==
               MulF(old_employment, Unit - employment_shift_speed)
               + MulF(MulF(scale(pool, type_share), factory.production_scale),
                      employment_shift_speed)
           pool_left(pool, type_share) == Max(0, pool - type_share)
           raw_employment(pool, type_share) ==
               Unit - (IF pool > 0 THEN DivF(pool_left(pool, type_share), pool) ELSE 0)
       IN  factory' = [factory EXCEPT
               !.primary_employment =
                   new_employment(factory.primary_employment, primary_pool, primary_share),
               !.secondary_employment =
                   new_employment(factory.secondary_employment, secondary_pool,
                                  secondary_share),
               !.pops_raw_employment =
                   [primary |-> raw_employment(primary_pool, primary_share),
                    secondary |-> raw_employment(secondary_pool, secondary_share)]]
    /\ factory_phase' = "start"
    /\ UNCHANGED <<real_demand, intermediate_demand, gdp, demand_satisfaction, factory_day,
                   factory_log>>
    /\ UNCHANGED notFactory

\* a factory anywhere between newly built (full scale, nobody employed) and run down
FactoryInit ==
    /\ PriceParked
    /\ MarketParked
    /\ FiscalParked
    /\ RgoParked
    /\ ParallelParked
    /\ ConstructionParked
    /\ TreasuryParked
    /\ ConsumptionParked
    /\ EmploymentParked
    /\ CountParked
    /\ global_market_pool = [c \in Commodities |-> 0]
    /\ real_demand = [n \in Nations |-> [c \in Commodities |-> 0]]
    /\ domestic_market_pool = [n \in Nations |-> [c \in Commodities |-> 0]]
    /\ \E sat \in SatisfactionSamples :
           demand_satisfaction =
               [n \in Nations |-> [c \in Commodities |->
                   IF n = FactoryOwner /\ c \in InputGoods THEN sat ELSE Unit]]
    /\ \E level \in {1, 2}, production_scale \in {0, Unit},
          primary_employment \in {0, 500, Unit}, secondary_employment \in {0, 500},
          subsidized \in BOOLEAN :
           factory = [level |-> level,
                      production_scale |-> production_scale,
                      primary_employment |-> primary_employment,
                      secondary_employment |-> secondary_employment,
                      subsidized |-> subsidized,
                      unprofitable |-> FALSE,
                      triggered_modifiers |-> Unit,
                      actual_production |-> 0,
                      full_profit |-> 0,
                      pops_raw_employment |-> [primary |-> 0, secondary |-> 0]]
    /\ intermediate_demand = [n \in Nations |-> [c \in Commodities |-> 0]]
    /\ gdp = [n \in Nations |-> 0]
    /\ factory_phase = "start"
    /\ factory_day = 1
    /\ factory_log = [done |-> FALSE]

FactoryNext ==
    \/ StartFactoryTick
    \/ \E a \in ConsumptionSamples :
           UpdateSingleFactoryConsumption(a.mobilization_impact, a.expected_min_wage,
                                          a.occupied)
    \/ \E sat \in SatisfactionSamples, subsidized \in BOOLEAN : FactoryMarket(sat, subsidized)
    \/ \E pool \in {0, 100 * Unit, 1000 * Unit} :
           UpdateFactoryEmployment(pool, pool \div 4)

SpecFactory == FactoryInit /\ [][FactoryNext]_vars

\* C7 as the specification states it: a factory nobody works in comes out of
\* update_single_factory_consumption with actual_production 0 and, unless it is
\* subsidized, with the unprofitable flag set.
C7_IdleFactoryUnprofitable ==
    (factory_phase = "market" /\ factory_log.primary_employment = 0) =>
        /\ factory.actual_production = 0
        /\ ~factory_log.subsidized => factory.unprofitable

\* C7: a factory nobody works in comes out of update_single_factory_consumption with
\* actual_production 0 and full_profit 0; its unprofitable flag is set exactly when the
\* profit of one fully staffed level at current prices and input availability does not
\* exceed the spendings of that level, whether or not the factory is subsidized.
C7_IdleFactory ==
    (factory_phase = "market" /\ factory_log.primary_employment = 0) =>
        /\ factory.actual_production = 0
        /\ factory.full_profit = 0
        /\ factory.unprofitable <=> (factory_log.profit <= factory_log.spendings)

\* an unsubsidized factory at a positive production scale with nobody employed, whose
\* full level would earn more than it spends: it produced nothing and is not flagged
C7_Witness ==
    /\ factory_phase = "market"
    /\ factory_log.done
    /\ factory_log.primary_employment = 0
    /\ ~factory_log.subsidized
    /\ factory.production_scale > 0
    /\ factory_log.profit > factory_log.spendings
    /\ factory.actual_production = 0
    /\ ~factory.unprofitable

\* a subsidized factory with nobody employed that is flagged all the same
C7_WitnessSubsidized ==
    /\ factory_phase = "market"
    /\ factory_log.done
    /\ factory_log.primary_employment = 0
    /\ factory_log.subsidized
    /\ factory.unprofitable

-----------------------------------------------------------------------------
(* The per-nation parallel loop of daily_update: concurrency::parallel_for over  *)
(* the nations, one task per nation, no synchronisation between the tasks.      *)
(* A memory location is [f, n]: the field f of nation n, of its provinces, pops *)
(* and factories; n = 0 for a table that belongs to no nation.                  *)

\* the build costs emulate_construction_demand reads: infantry and artillery
\* (commodity, amount, build_time) and the factory types available from the start
emulated_builds ==
    [infantry |-> [commodity |-> 2, amount |-> 10 * Unit, time |-> 10],
     artillery |-> [commodity |-> 2, amount |-> 20 * Unit, time |-> 20],
     factory |-> [commodity |-> 1, amount |-> 100 * Unit, time |-> 100]]

\* the register_demand calls of emulate_construction_demand, in order, for a nation
\* whose base income is base_income
emulate_construction_demand(base_income) ==
    LET b == emulated_builds
        daily(u) == u.amount \div u.time
        income_to_build_units == base_income \div 10
        daily_cost == MulF(daily(b.infantry), current_price[b.infantry.commodity])
                      + MulF(daily(b.artillery), current_price[b.artillery.commodity])
        pairs_to_build == DivF(income_to_build_units, daily_cost + Unit)
        income_to_build_factories == base_income \div 10
        cost_factory_set == MulF(current_price[b.factory.commodity], daily(b.factory))
        num_of_factory_sets == DivF(income_to_build_factories, cost_factory_set + Unit)
    IN  <<[commodity |-> b.infantry.commodity,
           amount |-> MulF(daily(b.infantry), pairs_to_build)],
          [commodity |-> b.artillery.commodity,
           amount |-> MulF(daily(b.artillery), pairs_to_build)],
          [commodity |-> b.factory.commodity,
           amount |-> MulF(daily(b.factory), num_of_factory_sets)]>>

\* the body of the loop in the order of the code: what each part reads and writes
\* of the nation's own data (own_reads, writes) and of the tables of no nation
task_steps ==
    <<[step |-> "needs_caps",
       own_reads |-> {"demand_satisfaction", "needs_weights", "active_building"},
       writes |-> {}, shared |-> {"pop_type_needs"}],
      [step |-> "refunds",
       own_reads |-> {"demand_satisfaction", "direct_demand_satisfaction", "spending_level",
                      "navy_demand", "army_demand", "construction_demand",
                      "stockpile_targets", "drawing_on_stockpiles"},
       writes |-> {"effective_spending", "stockpiles", "stockpiles_money",
                   "overseas_penalty"},
       shared |-> {"current_price"}],
      [step |-> "production",
       own_reads |-> {"factory", "rgo_actual_production", "demographics"},
       writes |-> {"factory", "artisan_actual_production", "domestic_market_pool", "gdp",
                   "stockpiles_money", "subsidies_spending", "rgo_profit", "pop_needs"},
       shared |-> {"current_price"}],
      [step |-> "wages",
       own_reads |-> {"artisan_profit", "demographics", "factory", "rgo_profit"},
       writes |-> {"pop_savings"}, shared |-> {"inflation"}],
      [step |-> "advance_construction",
       own_reads |-> {"spending_level", "demand_satisfaction"},
       writes |-> {"construction_demand", "private_construction_demand",
                   "stockpiles_money", "purchased_goods"},
       shared |-> {"current_price"}],
      [step |-> "emulate_construction_demand",
       own_reads |-> {"total_income"}, writes |-> {}, shared |-> {"current_price"}],
      [step |-> "education",
       own_reads |-> {}, writes |-> {"pop_savings", "private_investment"}, shared |-> {}],
      [step |-> "taxes",
       own_reads |-> {"imports"},
       writes |-> {"pop_savings", "total_income", "stockpiles_money"},
       shared |-> {"current_price"}],
      [step |-> "rebalance",
       own_reads |-> {"demand_satisfaction"},
       writes |-> {"needs_weights", "artisan_distribution"}, shared |-> {}]>>

\* the accesses of task n in a part of the loop body
Accesses(n, part) ==
    {[task |-> n, loc |-> [f |-> x, n |-> n], kind |-> "read"] : x \in part.own_reads}
    \cup {[task |-> n, loc |-> [f |-> x, n |-> n], kind |-> "write"] : x \in part.writes}
    \cup {[task |-> n, loc |-> [f |-> x, n |-> 0], kind |-> "read"] : x \in part.shared}

\* One part of the loop body of nation n other than the register_demand calls; with
\* initiate_buildings the emulation is skipped.
TaskStep(n) ==
    /\ task[n].pc <= Len(task_steps)
    /\ LET part == task_steps[task[n].pc]
       IN  IF part.step = "emulate_construction_demand"
           THEN /\ initiate_buildings
                /\ UNCHANGED access_log
           ELSE access_log' = access_log \cup Accesses(n, part)
    /\ task' = [task EXCEPT ![n].pc = @ + 1]
    /\ UNCHANGED <<initiate_buildings, demand_by_category, emulated_demand, notParallel>>

\* register_demand of the next call of the emulation, up to the load of
\* commodity_get_demand_by_category(c, reason) that its += begins with
RegisterDemandLoad(n) ==
    /\ task[n].pc <= Len(task_steps)
    /\ task_steps[task[n].pc].step = "emulate_construction_demand"
    /\ ~initiate_buildings
    /\ ~task[n].loaded
    /\ LET call == emulate_construction_demand(task[n].base_income)[task[n].call]
           c == call.commodity
       IN  /\ emulated_demand' = [emulated_demand EXCEPT ![n][c] = @ + call.amount]
           /\ task' = [task EXCEPT ![n].loaded = TRUE, ![n].reg = demand_by_category[c]]
           /\ access_log' = access_log \cup Accesses(n, task_steps[task[n].pc])
                  \cup {[task |-> n, loc |-> [f |-> "real_demand", n |-> n], kind |-> "write"],
                        [task |-> n, loc |-> [f |-> "demand_by_category", n |-> 0],
                         kind |-> "read"]}
    /\ UNCHANGED <<initiate_buildings, demand_by_category, notParallel>>

\* the store that ends the += of register_demand
RegisterDemandStore(n) ==
    /\ task[n].pc <= Len(task_steps)
    /\ task_steps[task[n].pc].step = "emulate_construction_demand"
    /\ task[n].loaded
    /\ LET calls == emulate_construction_demand(task[n].base_income)
           call == calls[task[n].call]
       IN  /\ demand_by_category' =
                  [demand_by_category EXCEPT ![call.commodity] = task[n].reg + call.amount]
           /\ task' = [task EXCEPT ![n] =
                  IF task[n].call < Len(calls)
                  THEN [@ EXCEPT !.loaded = FALSE, !.call = @ + 1]
                  ELSE [@ EXCEPT !.loaded = FALSE, !.pc = @ + 1]]
    /\ access_log' = access_log \cup
           {[task |-> n, loc |-> [f |-> "demand_by_category", n |-> 0], kind |-> "write"]}
    /\ UNCHANGED <<initiate_buildings, emulated_demand, notParallel>>

\* the base incomes (rich + middle + poor * 0.00001) of the nations
BaseIncomeSamples == {300 * Unit, 600 * Unit}

ParallelInit ==
    /\ PriceParked
    /\ MarketParked
    /\ FiscalParked
    /\ RgoParked
    /\ FactoryParked
    /\ ConstructionParked
    /\ TreasuryParked
    /\ ConsumptionParked
    /\ EmploymentParked
    /\ CountParked
    /\ global_market_pool = [c \in Commodities |-> 0]
    /\ real_demand = [n \in Nations |-> [c \in Commodities |-> 0]]
    /\ domestic_market_pool = [n \in Nations |-> [c \in Commodities |-> 0]]
    /\ demand_satisfaction = [n \in Nations |-> [c \in Commodities |-> Unit]]
    /\ initiate_buildings \in BOOLEAN
    /\ \E income \in [Nations -> BaseIncomeSamples] :
          task = [n \in Nations |->
                     [pc |-> 1, call |-> 1, loaded |-> FALSE, reg |-> 0,
                      base_income |-> income[n]]]
    /\ demand_by_category = [c \in Commodities |-> 0]
    /\ emulated_demand = [n \in Nations |-> [c \in Commodities |-> 0]]
    /\ access_log = {}

ParallelNext ==
    \/ \E n \in Nations : TaskStep(n)
    \/ \E n \in Nations : RegisterDemandLoad(n)
    \/ \E n \in Nations : RegisterDemandStore(n)

SpecParallel == ParallelInit /\ [][ParallelNext]_vars

\* two accesses of different tasks to one location, one of them a write
Conflicts ==
    {pair \in access_log \X access_log :
        /\ pair[1].task < pair[2].task
        /\ pair[1].loc = pair[2].loc
        /\ "write" \in {pair[1].kind, pair[2].kind}}

\* C14: in the per-nation parallel phase no two nation tasks write the same memory
\* location and no task reads a location another task writes, with and without
\* initiate_buildings.
C14_TasksDisjoint == Conflicts = {}

\* C14, the failing input: presimulation, both tasks through; the construction
\* demand of a commodity holds less than the two nations registered for it.
C14_Failing ==
    /\ ~initiate_buildings
    /\ \A n \in Nations : task[n].pc > Len(task_steps)
    /\ \E c \in Commodities :
          demand_by_category[c] < emulated_demand[1][c] + emulated_demand[2][c]

------------------------------------------------------------------------\* C18: the production scale and the two employment fractions of the factory are
\* in [0, 1] in every state, through update_factory_scale in both branches and
\* update_factory_employment, whatever the profits, the pools and the level.
C18_FactoryFractions ==
    /\ 0 <= factory.production_scale /\ factory.production_scale <= Unit
    /\ 0 <= factory.primary_employment /\ factory.primary_employment <= Unit
    /\ 0 <= factory.secondary_employment /\ factory.secondary_employment <= Unit

\* after an employment update and a scale update: an unsubsidized factory whose
\* full level earns more than it spends is held at scale 1, its staff still growing
C18_Witness ==
    /\ factory_phase = "market"
    /\ factory_day >= 2
    /\ factory_log.done
    /\ ~factory_log.subsidized
    /\ factory_log.profit > factory_log.spendings
    /\ factory.production_scale = Unit
    /\ factory.primary_employment > 0
    /\ factory.primary_employment < Unit
    /\ factory.secondary_employment > 0

-----
(* Construction projects of nation 1: advance_construction moves bought goods  *)
(* into the purchased-goods ledgers, resolve_constructions finishes the paid   *)
(* projects.  Project 1 is a regiment, 2 and 3 are ships queued in one         *)
(* province, 4 is a province building, 5 a factory.                            *)

MaxConstructionDays == 3

\* build costs (commodity, amount per slot), build times, and the modifiers of
\* nation 1: factory_cost, factory_owner_cost, max_building_level
construction_definitions ==
    [land |-> [cost |-> <<[commodity |-> 2, amount |-> 10 * Unit]>>, time |-> 2],
     naval |-> [cost |-> <<[commodity |-> 2, amount |-> 10 * Unit]>>, time |-> 1],
     province_building |-> [cost |-> <<[commodity |-> 2, amount |-> 10 * Unit]>>, time |-> 2],
     state_building |-> [cost |-> <<[commodity |-> 1, amount |-> 10 * Unit],
                                    [commodity |-> 2, amount |-> 20 * Unit]>>, time |-> 2],
     factory_cost |-> 500,
     factory_owner_cost |-> 500,
     max_building_level |-> 1]

\* the cost slot j of a project must reach: base cost times the modifiers of its kind
adjusted_cost(c, j) ==
    LET d == construction_definitions
        base == d[c.kind].cost[j].amount
        admin_cost_factor == 2 * Unit - nation_administrative_efficiency[c.nation]
    IN  CASE c.kind \in {"land", "naval"} -> MulF(base, admin_cost_factor)
          [] c.kind = "province_building" ->
                 MulF(base, IF c.is_pop_project THEN Unit ELSE admin_cost_factor)
          [] c.kind = "state_building" ->
                 IF c.is_pop_project
                 THEN MulF(base, MulF(d.factory_cost + Unit, Max(100, d.factory_owner_cost)))
                 ELSE MulF(MulF(base, d.factory_cost + Unit), admin_cost_factor)

\* finished as soon as one commodity of the cost is bought
all_finished_any_slot(c) ==
    \E j \in DOMAIN construction_definitions[c.kind].cost :
        ~(c.purchased_goods[j] < adjusted_cost(c, j))

\* bool all_finished of resolve_constructions
all_finished(c) ==
    \A j \in DOMAIN construction_definitions[c.kind].cost :
        ~(c.purchased_goods[j] < adjusted_cost(c, j))

\* the projects a pass over the nation looks at: every regiment, the first ship of
\* the province (rng.begin()), every building
Examined(cs) ==
    LET ships == {i \in DOMAIN cs : cs[i].exists /\ cs[i].kind = "naval"}
    IN  {i \in DOMAIN cs : cs[i].exists /\ cs[i].kind # "naval"}
        \cup {i \in ships : \A k \in ships : i <= k}

ToUint8Wrapping(x) == QuotT(x, Unit) % 256

\* uint8_t(std::min(float(std::numeric_limits<uint8_t>::max()), x))
ToUint8(x) == QuotT(Min(255 * Unit, x), Unit) % 256

\* the level add_factory_level_to_state gives the factory it upgrades
new_factory_level(factory_level) ==
    ToUint8(factory_level * Unit + Unit + SqrtF(factory_level * Unit) \div 2)

\* void add_factory_level_to_state(state, s, t, is_upgrade)
add_factory_level_to_state(fs, is_upgrade) ==
    IF is_upgrade /\ Len(fs) > 0
    THEN [fs EXCEPT ![1] = new_factory_level(fs[1])]
    ELSE Append(fs, 1)

\* what one project takes out of the goods bought for construction: per cost slot
\* min(source, daily amount), while the slot is below its adjusted cost
RECURSIVE AdvanceSlots(_, _, _)
AdvanceSlots(c, j, source) ==
    LET d == construction_definitions
        cost == d[c.kind].cost
    IN  IF j > Len(cost) THEN [c |-> c, source |-> source]
        ELSE LET good == cost[j].commodity
                 factory_mod ==
                     IF c.kind # "state_building" THEN Unit
                     ELSE IF c.is_pop_project
                          THEN MulF(d.factory_cost + Unit, Max(100, d.factory_owner_cost))
                          ELSE d.factory_cost + Unit
                 construction_time ==
                     IF c.kind = "state_building" /\ c.is_upgrade
                     THEN d[c.kind].time * 100 ELSE d[c.kind].time * Unit
                 delta == Max(0, Min(source[good],
                                     DivF(MulF(cost[j].amount, factory_mod), construction_time)))
             IN  IF c.purchased_goods[j] < adjusted_cost(c, j)
                 THEN AdvanceSlots([c EXCEPT !.purchased_goods[j] = @ + delta], j + 1,
                                   [source EXCEPT ![good] = @ - delta])
                 ELSE AdvanceSlots(c, j + 1, source)

\* the projects populate_construction_consumption registers demand for: the
\* state-funded ones, of the ships queued in a province only the first
Registering(cs) ==
    {i \in DOMAIN cs : /\ cs[i].exists
                       /\ ~cs[i].is_pop_project
                       /\ cs[i].kind = "naval" => i \in Examined(cs)}

\* what populate_construction_consumption registers per day for cost slot j of
\* project c while the slot is below its adjusted cost
registered_construction_demand(c, j) ==
    LET d == construction_definitions
        admin_cost_factor == 2 * Unit - nation_administrative_efficiency[c.nation]
        factory_mod == IF c.kind = "state_building" THEN d.factory_cost + Unit ELSE Unit
        construction_time ==
            IF c.kind = "state_building" /\ c.is_upgrade
            THEN d[c.kind].time * 500 ELSE d[c.kind].time * Unit
    IN  IF c.purchased_goods[j] < adjusted_cost(c, j)
        THEN DivF(MulF(MulF(d[c.kind].cost[j].amount, factory_mod), admin_cost_factor),
                  construction_time)
        ELSE 0

\* void populate_construction_consumption(state): the construction demand of the
\* nation per commodity
populate_construction_consumption(cs) ==
    [good \in Commodities |->
        LET slots == {<<i, j>> \in Registering(cs) \X (1 .. 2) :
                         /\ j \in DOMAIN construction_definitions[cs[i].kind].cost
                         /\ construction_definitions[cs[i].kind].cost[j].commodity = good}
            demand(slot) == registered_construction_demand(cs[slot[1]], slot[2])
        IN  SumOver(slots, demand)]

RECURSIVE AdvanceProjects(_, _, _, _)
AdvanceProjects(cs, todo, public, private) ==
    IF todo = {} THEN cs
    ELSE LET i == CHOOSE k \in todo : \A m \in todo : k <= m
             r == AdvanceSlots(cs[i], 1, IF cs[i].is_pop_project THEN private ELSE public)
         IN  AdvanceProjects([cs EXCEPT ![i] = r.c], todo \ {i},
                             IF cs[i].is_pop_project THEN public ELSE r.source,
                             IF cs[i].is_pop_project THEN r.source ELSE private)

\* advance_construction(state, n): bought is what the market delivered of the
\* nation's construction demand and of its private construction demand
AdvanceConstruction(bought) ==
    /\ construction_day < MaxConstructionDays
    /\ resolve_log.phase = "advance"
    /\ constructions' = AdvanceProjects(constructions, Examined(constructions),
                                        bought.public, bought.private)
    /\ resolve_log' = [resolve_log EXCEPT !.phase = "resolve", !.before = constructions,
                                          !.bought = bought.public]
    /\ UNCHANGED <<province_building_level, factories, units_built, construction_day,
                   nation_administrative_efficiency, notConstruction>>

\* void resolve_constructions(state)
ResolveConstructions ==
    /\ resolve_log.phase = "resolve"
    /\ LET done == {i \in DOMAIN constructions :
                       /\ constructions[i].exists
                       /\ constructions[i].kind = "naval" => i \in Examined(constructions)
                       /\ all_finished(constructions[i])}
           kinds == {constructions[i].kind : i \in done}
       IN  /\ constructions' = [i \in DOMAIN constructions |->
                  IF i \in done THEN [constructions[i] EXCEPT !.exists = FALSE]
                  ELSE constructions[i]]
           /\ units_built' =
                  [regiments |-> units_built.regiments + (IF "land" \in kinds THEN 1 ELSE 0),
                   ships |-> units_built.ships + (IF "naval" \in kinds THEN 1 ELSE 0)]
           /\ province_building_level' =
                  IF "province_building" \in kinds
                     /\ province_building_level < construction_definitions.max_building_level
                  THEN province_building_level + 1
                  ELSE province_building_level
           /\ factories' =
                  IF "state_building" \in kinds
                  THEN add_factory_level_to_state(factories, constructions[5].is_upgrade)
                  ELSE factories
           /\ resolve_log' = [phase |-> "advance", seen |-> constructions, done |-> done,
                              before |-> <<>>, bought |-> <<>>,
                              province_building_level |-> province_building_level,
                              factories |-> factories, units_built |-> units_built]
    /\ construction_day' = construction_day + 1
    /\ UNCHANGED <<nation_administrative_efficiency, notConstruction>>

\* a project as it is created when the build is queued: an empty ledger
NewProject(kind, pop_project, upgrade) ==
    [kind |-> kind, nation |-> 1, exists |-> TRUE, is_pop_project |-> pop_project,
     is_upgrade |-> upgrade,
     purchased_goods |-> [j \in DOMAIN construction_definitions[kind].cost |-> 0]]

\* what the market can deliver in a day for construction, per commodity
BoughtSamples ==
    {[public |-> [c \in Commodities |-> g], private |-> [c \in Commodities |-> g]] :
        g \in {0, 20 * Unit}}
    \cup {[public |-> <<20 * Unit, 0>>, private |-> <<20 * Unit, 0>>]}

\* the day the market delivers all of the registered construction demand and the
\* budget pays for all of it
FullySatisfied ==
    [public |-> populate_construction_consumption(constructions),
     private |-> [c \in Commodities |-> 20 * Unit]]

ConstructionInit ==
    /\ PriceParked
    /\ MarketParked
    /\ FiscalParked
    /\ RgoParked
    /\ FactoryParked
    /\ ParallelParked
    /\ TreasuryParked
    /\ ConsumptionParked
    /\ EmploymentParked
    /\ CountParked
    /\ global_market_pool = [c \in Commodities |-> 0]
    /\ real_demand = [n \in Nations |-> [c \in Commodities |-> 0]]
    /\ domestic_market_pool = [n \in Nations |-> [c \in Commodities |-> 0]]
    /\ demand_satisfaction = [n \in Nations |-> [c \in Commodities |-> Unit]]
    /\ \E pop_project \in BOOLEAN, upgrade \in BOOLEAN :
          constructions = <<NewProject("land", FALSE, FALSE),
                            NewProject("naval", FALSE, FALSE),
                            NewProject("naval", FALSE, FALSE),
                            NewProject("province_building", pop_project, FALSE),
                            NewProject("state_building", pop_project, upgrade)>>
    /\ province_building_level \in {0, construction_definitions.max_building_level}
    /\ factories \in {<<>>, <<1>>}
    /\ units_built = [regiments |-> 0, ships |-> 0]
    /\ construction_day = 0
    /\ \E admin_eff \in {500, Unit} :
          nation_administrative_efficiency = [n \in Nations |-> admin_eff]
    /\ resolve_log = [phase |-> "advance", seen |-> <<>>, done |-> {},
                      before |-> <<>>, bought |-> <<>>,
                      province_building_level |-> 0, factories |-> <<>>,
                      units_built |-> [regiments |-> 0, ships |-> 0]]

ConstructionNext ==
    \/ \E bought \in BoughtSamples \cup {FullySatisfied} : AdvanceConstruction(bought)
    \/ ResolveConstructions

SpecConstruction == ConstructionInit /\ [][ConstructionNext]_vars

\* advance_construction has just run on the projects of resolve_log.before
Advanced == resolve_log.phase = "resolve" /\ resolve_log.before # <<>>

\* what advance_construction added to the ledger of cost slot j of project i
LedgerAdded(i, j) ==
    constructions[i].purchased_goods[j] - resolve_log.before[i].purchased_goods[j]

\* C23: on a day the registered construction demand is fully satisfied and fully
\* funded, advance_construction adds to the ledger of every state-funded project
\* exactly what populate_construction_consumption registered for it:
\* base cost x admin_cost_factor / construction_time.
C23_AdvanceAddsRegisteredDemand ==
    (Advanced /\ resolve_log.bought = populate_construction_consumption(resolve_log.before)) =>
        \A i \in Registering(resolve_log.before) :
            \A j \in DOMAIN resolve_log.before[i].purchased_goods :
                LedgerAdded(i, j) = registered_construction_demand(resolve_log.before[i], j)

\* a regiment under an administration of efficiency 0.5: 7.5 a day were registered
\* and delivered, 5.0 reached the ledger
C23_Failing ==
    /\ Advanced
    /\ resolve_log.bought = populate_construction_consumption(resolve_log.before)
    /\ nation_administrative_efficiency[1] = 500
    /\ resolve_log.before[1].exists
    /\ registered_construction_demand(resolve_log.before[1], 1) = 7500
    /\ LedgerAdded(1, 1) = 5 * Unit

\* every commodity of the bill of materials is covered by the ledger
Paid(c) ==
    \A j \in DOMAIN construction_definitions[c.kind].cost :
        c.purchased_goods[j] >= adjusted_cost(c, j)

\* a pass of resolve_constructions has just run
Resolved == resolve_log.phase = "advance" /\ construction_day > 0

\* the effect of finishing project i shows: the unit or ship exists, the building
\* level went up, the factory was created or upgraded
EffectApplied(i) ==
    LET c == resolve_log.seen[i]
    IN  CASE c.kind = "land" -> units_built.regiments = resolve_log.units_built.regiments + 1
          [] c.kind = "naval" -> units_built.ships = resolve_log.units_built.ships + 1
          [] c.kind = "province_building" ->
                 province_building_level = resolve_log.province_building_level + 1
          [] c.kind = "state_building" ->
                 factories = add_factory_level_to_state(resolve_log.factories, c.is_upgrade)

\* C16 as stated: a project is finished (effect applied, project deleted) exactly
\* when every slot of its ledger has reached the adjusted cost; otherwise it stays
\* with its ledger unchanged.
C16_CompletesIffPaid ==
    Resolved =>
        \A i \in {k \in DOMAIN resolve_log.seen : resolve_log.seen[k].exists} :
            /\ Paid(resolve_log.seen[i])
                   <=> (~constructions[i].exists /\ EffectApplied(i))
            /\ ~Paid(resolve_log.seen[i]) => constructions[i] = resolve_log.seen[i]

\* C16: a project is deleted exactly when the pass examines it (a ship only when
\* it is the first of its province) and every slot of its ledger has reached the
\* adjusted cost; a deleted regiment, ship or factory project has its effect, a
\* deleted province building raises the level only below the maximum level; a
\* project that is not deleted keeps its ledger.
C16_CompletesIffExaminedAndPaid ==
    Resolved =>
        \A i \in {k \in DOMAIN resolve_log.seen : resolve_log.seen[k].exists} :
            LET c == resolve_log.seen[i]
                below_max == resolve_log.province_building_level
                                 < construction_definitions.max_building_level
            IN  /\ ~constructions[i].exists
                       <=> (i \in Examined(resolve_log.seen) /\ Paid(c))
                /\ ~constructions[i].exists /\ (c.kind = "province_building" => below_max)
                       => EffectApplied(i)
                /\ ~constructions[i].exists /\ c.kind = "province_building" /\ ~below_max
                       => province_building_level = resolve_log.province_building_level
                /\ constructions[i].exists => constructions[i] = c

\* the factory project, with two commodities in its bill, is finished in a pass
\* that leaves a partly paid project in place
C16_Witness ==
    /\ Resolved
    /\ resolve_log.seen[5].exists
    /\ ~constructions[5].exists
    /\ EffectApplied(5)
    /\ \E i \in DOMAIN constructions :
          /\ constructions[i].exists
          /\ constructions[i].purchased_goods[1] > 0
          /\ ~Paid(constructions[i])

-----------------------------------------------------------------------------
(* Factory upgrades: a paid upgrade project on a state whose factory of the   *)
(* type has any level a uint8_t can hold.                                      *)

\* std::numeric_limits<uint8_t>::max()
uint8_max == 255

UpgradeInit ==
    /\ PriceParked
    /\ MarketParked
    /\ FiscalParked
    /\ RgoParked
    /\ FactoryParked
    /\ ParallelParked
    /\ TreasuryParked
    /\ ConsumptionParked
    /\ EmploymentParked
    /\ CountParked
    /\ global_market_pool = [c \in Commodities |-> 0]
    /\ real_demand = [n \in Nations |-> [c \in Commodities |-> 0]]
    /\ domestic_market_pool = [n \in Nations |-> [c \in Commodities |-> 0]]
    /\ demand_satisfaction = [n \in Nations |-> [c \in Commodities |-> Unit]]
    /\ nation_administrative_efficiency = [n \in Nations |-> Unit]
    /\ \E pop_project \in BOOLEAN :
          LET c == NewProject("state_building", pop_project, TRUE)
          IN  constructions =
                  [i \in 1 .. 5 |->
                      IF i = 5
                      THEN [c EXCEPT !.purchased_goods =
                                [j \in DOMAIN c.purchased_goods |-> adjusted_cost(c, j)]]
                      ELSE [NewProject("land", FALSE, FALSE) EXCEPT !.exists = FALSE]]
    /\ province_building_level = 0
    /\ \E level \in 0 .. uint8_max : factories = <<level>>
    /\ units_built = [regiments |-> 0, ships |-> 0]
    /\ construction_day = 0
    /\ resolve_log = [phase |-> "resolve", seen |-> <<>>, done |-> {},
                      before |-> <<>>, bought |-> <<>>,
                      province_building_level |-> 0, factories |-> <<>>,
                      units_built |-> [regiments |-> 0, ships |-> 0]]

UpgradeNext == ResolveConstructions

SpecUpgrade == UpgradeInit /\ [][UpgradeNext]_vars

\* C17: a finished upgrade sets the level of the existing factory to
\* min(255, floor(level + 1 + sqrt(level) / 2)); the level rises strictly while it
\* is below 255 and never passes or wraps around 255, from every level 0..255.
C17_UpgradeLevel ==
    Resolved /\ 5 \in resolve_log.done =>
        LET level == resolve_log.factories[1]
            new == factories[1]
        IN  /\ Len(factories) = 1
            /\ new = Min(uint8_max, level + 1 + ISqrt(level) \div 2)
            /\ level < uint8_max => new > level
            /\ new >= level
            /\ new <= uint8_max

\* an upgrade from level 250, where level + 1 + sqrt(level) / 2 passes 255
C17_Witness ==
    /\ Resolved
    /\ 5 \in resolve_log.done
    /\ resolve_log.factories = <<250>>
    /\ factories = <<255>>

-----------------------------------------------------------------------------
(* Pop consumption of nation 1: update_pop_consumption over the pops of its    *)
(* one province, after the payment pass has set their savings.                 *)

MaxConsumptionDays == 2

\* state.defines of update_pop_consumption
consumption_defines ==
    [alice_invest_capitalist |-> 500,
     alice_invest_aristocrat |-> 250,
     alice_needs_lf_spend |-> 600,
     alice_needs_ev_spend |-> 300,
     alice_needs_lx_spend |-> 100]

\* the investment step taken by every pop type
InvestedByAnyone(t, total_budget) ==
    MulF(total_budget, consumption_defines.alice_invest_aristocrat)

\* what a pop of type t puts into private investment out of total_budget
Invested(t, total_budget) ==
    IF ~nation_allows_investment \/ (t # "aristocrat" /\ t # "capitalists") THEN 0
    ELSE IF t = "capitalists"
    THEN MulF(total_budget, consumption_defines.alice_invest_capitalist)
    ELSE MulF(total_budget, consumption_defines.alice_invest_aristocrat)

\* the body of the loop over the pops, for one pop
PopConsumption(pop) ==
    LET t == pop.poptype
        total_pop == pop.size
        ln_to_satisfy == Max(Unit - province_subsistence.life, 0)
        en_to_satisfy == Max(Unit - province_subsistence.everyday, 0)
        xn_to_satisfy == Max(Unit - province_subsistence.luxury, 0)
        ln_cost == DivF(MulF(MulF(ln_to_satisfy, needs_costs[t].life), total_pop),
                        alice_needs_scaling_factor)
        en_cost == DivF(MulF(MulF(en_to_satisfy, needs_costs[t].everyday), total_pop),
                        alice_needs_scaling_factor)
        xn_cost == DivF(MulF(MulF(xn_to_satisfy, needs_costs[t].luxury), total_pop),
                        alice_needs_scaling_factor)
        budget0 == pop.savings
        life_market == IF budget0 >= ln_cost THEN ln_to_satisfy ELSE DivF(budget0, ln_cost)
        budget1 == Max(budget0 - ln_cost, 0)
        invested == Invested(t, budget1)
        budget2 == budget1 - invested
        everyday_market == IF budget2 >= en_cost THEN en_to_satisfy
                           ELSE Max(0, DivF(budget2, en_cost))
        budget3 == budget2 - en_cost
        \* a negative budget over a cost of 0 is minus infinity; the maximum with 0 is 0
        luxury_market == IF budget3 >= xn_cost THEN xn_to_satisfy
                         ELSE IF xn_cost = 0 THEN 0
                         ELSE Max(0, DivF(budget3, xn_cost))
        budget4 == budget3 - xn_cost
        induced(share, cost) ==
            IF budget4 > 0 THEN DivF(MulF(budget4, share), Max(1, cost)) ELSE 0
        life_needs_fraction ==
            life_market + induced(consumption_defines.alice_needs_lf_spend, ln_cost)
        everyday_needs_fraction ==
            everyday_market + induced(consumption_defines.alice_needs_ev_spend, en_cost)
        luxury_needs_fraction ==
            luxury_market + induced(consumption_defines.alice_needs_lx_spend, xn_cost)
        result(old, sub, fraction) ==
            Clamp(MulF(Clamp(old - sub, 0, Unit), 900) + MulWide(fraction, 100), 0, Unit)
        kept(old, sub, fraction) ==
            Clamp(MulF(old, 990) + MulWide(fraction + sub, 10), 0, Unit)
    IN  [pop |-> [pop EXCEPT
                     !.life_needs = kept(@, province_subsistence.life, life_needs_fraction),
                     !.everyday_needs =
                         kept(@, province_subsistence.everyday, everyday_needs_fraction),
                     !.luxury_needs =
                         kept(@, province_subsistence.luxury, luxury_needs_fraction)],
         savings |-> budget0, ln_cost |-> ln_cost, en_cost |-> en_cost, xn_cost |-> xn_cost,
         invested |-> invested,
         life |-> life_market, everyday |-> everyday_market, luxury |-> luxury_market,
         left |-> budget4,
         ln_demand |-> DivF(MulF(result(pop.life_needs, province_subsistence.life,
                                        life_needs_fraction), total_pop),
                            alice_needs_scaling_factor),
         en_demand |-> DivF(MulF(result(pop.everyday_needs, province_subsistence.everyday,
                                        everyday_needs_fraction), total_pop),
                            alice_needs_scaling_factor),
         lx_demand |-> DivF(MulF(result(pop.luxury_needs, province_subsistence.luxury,
                                        luxury_needs_fraction), total_pop),
                            alice_needs_scaling_factor)]

\* pop_type_get_life_needs and the like of the one good the pops of the province buy
consumption_needs(t) ==
    IF t = "laborers" THEN [life |-> Unit, everyday |-> 0, luxury |-> Unit]
    ELSE [life |-> Unit, everyday |-> Unit, luxury |-> Unit]

\* update_pop_consumption of nation 1 (real demand was reset at the head of the
\* nation's turn); the pops keep their savings
UpdatePopConsumption ==
    /\ consumption_day < MaxConsumptionDays
    /\ consumption_log = <<>>
    /\ LET done == [i \in DOMAIN nation_pops |-> PopConsumption(nation_pops[i])]
           of_type(t) == {i \in DOMAIN nation_pops : nation_pops[i].poptype = t}
           demand(t) ==
               MulF(consumption_needs(t).life * base_goods_demand * alice_lf_needs_scale,
                    SumOver(of_type(t), LAMBDA i : done[i].ln_demand))
               + MulF(consumption_needs(t).everyday * base_goods_demand * alice_ev_needs_scale,
                      SumOver(of_type(t), LAMBDA i : done[i].en_demand))
               + MulF(consumption_needs(t).luxury * base_goods_demand * alice_lx_needs_scale,
                      SumOver(of_type(t), LAMBDA i : done[i].lx_demand))
       IN  /\ nation_pops' = [i \in DOMAIN nation_pops |-> done[i].pop]
           /\ private_investment' =
                  private_investment + SumOver(DOMAIN done, LAMBDA i : done[i].invested)
           /\ real_demand' = [real_demand EXCEPT ![1][2] = SumOver(PopTypes, demand)]
           /\ consumption_log' = [i \in DOMAIN done |-> [done[i] EXCEPT !.pop = nation_pops[i]]]
    /\ consumption_day' = consumption_day + 1
    /\ UNCHANGED <<needs_costs, nation_allows_investment, province_subsistence>>
    /\ UNCHANGED <<global_market_pool, domestic_market_pool, demand_satisfaction>>
    /\ UNCHANGED <<commodityVars, priceBook, marketVars, budgetVars, fiscalBook, rgoVars,
                   rgoBook, factoryVars, factoryBook, parallelVars, constructionVars,
                   treasuryVars, employmentVars, countVars>>

\* the payment passes of the next tick set the savings of every pop
PaySavings(paid) ==
    /\ consumption_log # <<>>
    /\ nation_pops' = [i \in DOMAIN nation_pops |-> [nation_pops[i] EXCEPT !.savings = paid[i]]]
    /\ consumption_log' = <<>>
    /\ UNCHANGED <<needs_costs, nation_allows_investment, province_subsistence,
                   private_investment, consumption_day>>
    /\ UNCHANGED notConsumption

\* savings of the investor and of the laborers: below, at and above the life-needs
\* cost of 10, and enough for everything
SavingsSamples ==
    {<<mine, theirs>> : mine \in {0, 4 * Unit, 10 * Unit, 25 * Unit, 80 * Unit},
                        theirs \in {4 * Unit, 25 * Unit}}

ConsumptionInit ==
    /\ PriceParked
    /\ MarketParked
    /\ FiscalParked
    /\ RgoParked
    /\ FactoryParked
    /\ ParallelParked
    /\ ConstructionParked
    /\ TreasuryParked
    /\ EmploymentParked
    /\ CountParked
    /\ global_market_pool = [c \in Commodities |-> 0]
    /\ real_demand = [n \in Nations |-> [c \in Commodities |-> 0]]
    /\ domestic_market_pool = [n \in Nations |-> [c \in Commodities |-> 0]]
    /\ demand_satisfaction = [n \in Nations |-> [c \in Commodities |-> Unit]]
    /\ \E investor \in {"capitalists", "aristocrat"}, paid \in SavingsSamples :
          nation_pops = [i \in 1 .. 2 |->
              [poptype |-> IF i = 1 THEN investor ELSE "laborers", savings |-> paid[i],
               size |-> 10 * Unit, life_needs |-> 500, everyday_needs |-> 500,
               luxury_needs |-> 500]]
    /\ needs_costs = [t \in PopTypes |->
                         IF t = "laborers" THEN [life |-> Unit, everyday |-> 0, luxury |-> Unit]
                         ELSE [life |-> Unit, everyday |-> 2 * Unit, luxury |-> 3 * Unit]]
    /\ nation_allows_investment \in BOOLEAN
    /\ province_subsistence \in {[life |-> 0, everyday |-> 0, luxury |-> 0],
                                 [life |-> Unit, everyday |-> 500, luxury |-> 0]}
    /\ private_investment = 0
    /\ consumption_day = 0
    /\ consumption_log = <<>>

ConsumptionNext ==
    \/ UpdatePopConsumption
    \/ \E paid \in SavingsSamples : PaySavings(paid)

SpecConsumption == ConsumptionInit /\ [][ConsumptionNext]_vars

\* the entries of the last update_pop_consumption
ConsumptionEntries == {consumption_log[i] : i \in DOMAIN consumption_log}

\* C22 as stated: a pop whose savings do not exceed its life-needs cost adds nothing
\* to private investment and gets market fraction 0 for everyday and luxury needs;
\* a pop that cannot cover its everyday needs gets luxury market fraction 0; only
\* capitalists and aristocrats of a nation that allows it invest, a fixed fraction
\* of what life needs left.
C22_StrictOrder ==
    \A e \in ConsumptionEntries :
        LET after_life == Max(e.savings - e.ln_cost, 0)
            investor == nation_allows_investment
                        /\ e.pop.poptype \in {"capitalists", "aristocrat"}
        IN  /\ e.savings <= e.ln_cost => e.invested = 0 /\ e.everyday = 0 /\ e.luxury = 0
            /\ after_life - e.invested < e.en_cost => e.luxury = 0
            /\ ~investor => e.invested = 0
            /\ investor => e.invested = MulF(after_life,
                               IF e.pop.poptype = "capitalists"
                               THEN consumption_defines.alice_invest_capitalist
                               ELSE consumption_defines.alice_invest_aristocrat)

\* C22: the same, where a need that costs nothing counts as covered: a pop whose
\* savings do not exceed its life-needs cost gets market fraction 0 for an everyday
\* or luxury need of positive cost, and the full share left to the market for one
\* of cost 0.
C22_StrictOrderOfPaidNeeds ==
    \A e \in ConsumptionEntries :
        LET after_life == Max(e.savings - e.ln_cost, 0)
            investor == nation_allows_investment
                        /\ e.pop.poptype \in {"capitalists", "aristocrat"}
        IN  /\ e.savings <= e.ln_cost =>
                  /\ e.invested = 0
                  /\ e.everyday = IF e.en_cost > 0 THEN 0
                                  ELSE Max(Unit - province_subsistence.everyday, 0)
                  /\ e.luxury = IF e.en_cost > 0 \/ e.xn_cost > 0 THEN 0
                                ELSE Max(Unit - province_subsistence.luxury, 0)
            /\ after_life - e.invested < e.en_cost => e.luxury = 0
            /\ ~investor => e.invested = 0
            /\ investor => e.invested = MulF(after_life,
                               IF e.pop.poptype = "capitalists"
                               THEN consumption_defines.alice_invest_capitalist
                               ELSE consumption_defines.alice_invest_aristocrat)

\* an investor that pays its life needs, invests and then cannot cover its everyday
\* needs, next to a pop that cannot cover its life needs
C22_Witness ==
    /\ \E e \in ConsumptionEntries :
          /\ e.invested > 0
          /\ e.savings > e.ln_cost
          /\ e.everyday > 0 /\ e.everyday < Unit
          /\ e.luxury = 0
    /\ \E e \in ConsumptionEntries :
          e.ln_cost > 0 /\ e.savings < e.ln_cost /\ e.life > 0 /\ e.life < Unit

-----------------------------------------------------------------------------
(* The factories of one state: update_factory_employment shares the state's    *)
(* primary and secondary factory workers among them, bucket by bucket.         *)

MaxEmploymentDays == 2

\* bool factory_is_profitable(state, f)
factory_is_profitable(f) == ~f.unprofitable \/ f.subsidized

\* int32_t factory_priority(state, f)
factory_priority(f) == (IF f.priority_low THEN 1 ELSE 0) + (IF f.priority_high THEN 2 ELSE 0)

\* float factory_max_employment(state, f), for a factory record
max_employment_of(f) == defines.alice_factory_per_level_employment * f.level

\* the comparator of the sort: profitable first, then higher priority, then index
SortsBefore(fs, a, b) ==
    IF factory_is_profitable(fs[a]) # factory_is_profitable(fs[b])
    THEN factory_is_profitable(fs[a])
    ELSE IF factory_priority(fs[a]) # factory_priority(fs[b])
         THEN factory_priority(fs[a]) > factory_priority(fs[b])
         ELSE a < b

\* ordered_factories after std::sort
ordered_factories(fs) ==
    CHOOSE o \in [DOMAIN fs -> DOMAIN fs] :
        \A i, j \in DOMAIN fs : i < j => SortsBefore(fs, o[i], o[j])

\* the pool is handed on to the next bucket unreduced
PoolLeftUntouched(pool_copy, type_share) == pool_copy

\* primary_pool_copy = std::max(0.0f, primary_pool_copy - type_share)
PoolLeft(pool_copy, type_share) == Max(0, pool_copy - type_share)

\* one worker type of one bucket: the share, the scale and the pool handed on
ServeType(pool_copy, fraction, total_workforce) ==
    LET type_share == MulF(fraction, total_workforce)
    IN  [pool |-> pool_copy,
         type_share |-> type_share,
         scale |-> IF pool_copy >= type_share THEN Unit ELSE DivF(pool_copy, type_share),
         left |-> PoolLeft(pool_copy, type_share)]

\* old_employment * (1 - employment_shift_speed) + scale * production_scale * speed
ShiftedEmployment(old_employment, scale, production_scale) ==
    LET employment_shift_speed == 1
    IN  MulF(old_employment, Unit - employment_shift_speed)
        + MulF(MulF(scale, production_scale), employment_shift_speed)

\* the loop over ordered_factories from position index on
RECURSIVE ServeBuckets(_, _, _, _, _, _)
ServeBuckets(order, index, primary_pool_copy, secondary_pool_copy, fs, buckets) ==
    IF index > Len(order)
    THEN [factories |-> fs, buckets |-> buckets,
          primary_pool_copy |-> primary_pool_copy,
          secondary_pool_copy |-> secondary_pool_copy]
    ELSE LET first == fs[order[index]]
             same(i) == /\ factory_is_profitable(fs[order[i]]) = factory_is_profitable(first)
                        /\ factory_priority(fs[order[i]]) = factory_priority(first)
             breaks == {i \in index .. Len(order) : ~same(i)}
             next_index == IF breaks = {} THEN Len(order) + 1
                           ELSE CHOOSE i \in breaks : \A k \in breaks : i <= k
             members == {order[i] : i \in index .. next_index - 1}
             total_workforce ==
                 SumOver(members,
                         LAMBDA m : MulF(max_employment_of(fs[m]), fs[m].production_scale))
             primary == ServeType(primary_pool_copy, factory_site.craftsmen_fraction,
                                  total_workforce)
             secondary == ServeType(secondary_pool_copy,
                                    Unit - factory_site.craftsmen_fraction, total_workforce)
             served == [m \in DOMAIN fs |->
                 IF m \in members
                 THEN [fs[m] EXCEPT
                          !.primary_employment =
                              ShiftedEmployment(@, primary.scale, fs[m].production_scale),
                          !.secondary_employment =
                              ShiftedEmployment(@, secondary.scale, fs[m].production_scale)]
                 ELSE fs[m]]
         IN  ServeBuckets(order, next_index, primary.left, secondary.left, served,
                          Append(buckets,
                                 [members |-> members,
                                  profitable |-> factory_is_profitable(first),
                                  priority |-> factory_priority(first),
                                  primary |-> primary, secondary |-> secondary]))

\* void update_factory_employment(state), for the one state
update_factory_employment ==
    /\ employment_day < MaxEmploymentDays
    /\ employment_log.buckets = <<>>
    /\ \E r \in {ServeBuckets(ordered_factories(state_factories), 1,
                              state_worker_pools.primary, state_worker_pools.secondary,
                              state_factories, <<>>)} :
          /\ state_factories' = r.factories
          /\ state_worker_pools' =
                 [state_worker_pools EXCEPT
                     !.primary_raw_employment =
                         Unit - (IF state_worker_pools.primary > 0
                                 THEN DivF(r.primary_pool_copy, state_worker_pools.primary)
                                 ELSE 0),
                     !.secondary_raw_employment =
                         Unit - (IF state_worker_pools.secondary > 0
                                 THEN DivF(r.secondary_pool_copy, state_worker_pools.secondary)
                                 ELSE 0)]
          /\ employment_log' = [buckets |-> r.buckets, before |-> state_factories]
    /\ employment_day' = employment_day + 1
    /\ UNCHANGED notEmployment

\* the craftsmen and clerks a state may have
WorkerPoolSamples ==
    {[primary |-> 0, secondary |-> 0],
     [primary |-> 100 * Unit, secondary |-> 30 * Unit],
     [primary |-> 150 * Unit, secondary |-> 100 * Unit],
     [primary |-> 500 * Unit, secondary |-> 100 * Unit]}

\* the rest of the day: pops are promoted, demoted and move, so the pools change
WorkersMove(pools) ==
    /\ employment_log.buckets # <<>>
    /\ state_worker_pools' = [state_worker_pools EXCEPT !.primary = pools.primary,
                                                        !.secondary = pools.secondary]
    /\ employment_log' = [buckets |-> <<>>, before |-> <<>>]
    /\ UNCHANGED <<state_factories, employment_day, notEmployment>>

\* a factory of level 1 as the samples vary it
StateFactory(unprofitable, subsidized, high, production_scale, employment) ==
    [unprofitable |-> unprofitable, subsidized |-> subsidized,
     priority_low |-> FALSE, priority_high |-> high, level |-> 1,
     production_scale |-> production_scale,
     primary_employment |-> employment, secondary_employment |-> employment]

\* profitable, unprofitable and subsidized, unprofitable
ProfitSamples == {<<FALSE, FALSE>>, <<TRUE, TRUE>>, <<TRUE, FALSE>>}

\* three factories in one state: two of any standing, priority and scale, the
\* third unprofitable and running or idle; all fully staffed or all empty
EmploymentInit ==
    /\ PriceParked
    /\ MarketParked
    /\ FiscalParked
    /\ RgoParked
    /\ FactoryParked
    /\ ParallelParked
    /\ ConstructionParked
    /\ TreasuryParked
    /\ ConsumptionParked
    /\ CountParked
    /\ global_market_pool = [c \in Commodities |-> 0]
    /\ real_demand = [n \in Nations |-> [c \in Commodities |-> 0]]
    /\ domestic_market_pool = [n \in Nations |-> [c \in Commodities |-> 0]]
    /\ demand_satisfaction = [n \in Nations |-> [c \in Commodities |-> Unit]]
    /\ \E p1 \in ProfitSamples, p2 \in ProfitSamples, h1 \in BOOLEAN, h2 \in BOOLEAN,
          s1 \in {0, 500, Unit}, s2 \in {0, 500, Unit}, s3 \in {0, Unit},
          employment \in {0, Unit} :
          state_factories = <<StateFactory(p1[1], p1[2], h1, s1, employment),
                              StateFactory(p2[1], p2[2], h2, s2, employment),
                              StateFactory(TRUE, FALSE, FALSE, s3, employment)>>
    /\ \E pools \in WorkerPoolSamples :
          state_worker_pools = [primary |-> pools.primary, secondary |-> pools.secondary,
                                primary_raw_employment |-> 0,
                                secondary_raw_employment |-> 0]
    /\ employment_day = 0
    /\ employment_log = [buckets |-> <<>>, before |-> <<>>]

EmploymentNext ==
    \/ update_factory_employment
    \/ \E pools \in WorkerPoolSamples : WorkersMove(pools)

SpecEmployment == EmploymentInit /\ [][EmploymentNext]_vars

\* update_factory_employment has just served the buckets of employment_log
Served == employment_log.buckets # <<>>

WorkerTypes == {"primary", "secondary"}

\* the initial pool and the fraction of a bucket's workforce a worker type stands for
TypePool(kind) ==
    IF kind = "primary" THEN state_worker_pools.primary ELSE state_worker_pools.secondary
TypeFraction(kind) ==
    IF kind = "primary" THEN factory_site.craftsmen_fraction
    ELSE Unit - factory_site.craftsmen_fraction

\* what the claim says of the buckets, the later buckets apart: they partition the
\* factories by standing and priority in the stated order, each worker type's share
\* is its fraction of the sum of max_employment x production_scale, its scale is 1 if
\* the pool covers the share and pool / share otherwise, the pool goes on reduced by
\* the share, and every factory moves 0.1% toward scale x production_scale
BucketsServedInOrder ==
    LET B == employment_log.buckets
        old == employment_log.before
    IN  /\ \A m \in DOMAIN old : \E i \in DOMAIN B : m \in B[i].members
        /\ \A i \in DOMAIN B :
               /\ B[i].members # {}
               /\ \A m \in DOMAIN old :
                      m \in B[i].members <=>
                          /\ (~old[m].unprofitable \/ old[m].subsidized) = B[i].profitable
                          /\ (IF old[m].priority_low THEN 1 ELSE 0)
                             + (IF old[m].priority_high THEN 2 ELSE 0) = B[i].priority
        /\ \A i, j \in DOMAIN B :
               i < j => \/ B[i].profitable /\ ~B[j].profitable
                        \/ B[i].profitable = B[j].profitable /\ B[i].priority > B[j].priority
        /\ \A i \in DOMAIN B, kind \in WorkerTypes :
               LET b == B[i][kind]
                   workforce == SumOver(B[i].members,
                                        LAMBDA m : MulF(100 * Unit * old[m].level,
                                                        old[m].production_scale))
               IN  /\ b.type_share = MulF(TypeFraction(kind), workforce)
                   /\ b.pool = IF i = 1 THEN TypePool(kind)
                               ELSE Max(0, B[i - 1][kind].pool - B[i - 1][kind].type_share)
                   /\ b.scale = IF b.pool >= b.type_share THEN Unit
                                ELSE (b.pool * Unit) \div b.type_share
        /\ \A i \in DOMAIN B : \A m \in B[i].members :
               LET toward(kind) == (B[i][kind].scale * old[m].production_scale) \div Unit
               IN  /\ state_factories[m].primary_employment =
                          (old[m].primary_employment * 999) \div Unit
                          + toward("primary") \div Unit
                   /\ state_factories[m].secondary_employment =
                          (old[m].secondary_employment * 999) \div Unit
                          + toward("secondary") \div Unit

\* C26 as stated: the buckets are served in order as above, and once a bucket is not
\* fully covered every later bucket gets scale 0.
C26_LaterBucketsGetNothing ==
    Served =>
        /\ BucketsServedInOrder
        /\ \A i, j \in DOMAIN employment_log.buckets, kind \in WorkerTypes :
               LET B == employment_log.buckets
               IN  (i < j /\ B[i][kind].pool < B[i][kind].type_share)
                       => B[j][kind].scale = 0

\* C26: the buckets are served in order as above; once a bucket is not fully covered
\* every later bucket with a positive share gets scale 0, and a later bucket whose
\* share is 0 (all its factories at production scale 0) gets scale 1, which moves
\* its factories toward employment 0 all the same.
C26_LaterBucketsWithShareGetNothing ==
    Served =>
        /\ BucketsServedInOrder
        /\ \A i, j \in DOMAIN employment_log.buckets, kind \in WorkerTypes :
               LET B == employment_log.buckets
               IN  (i < j /\ B[i][kind].pool < B[i][kind].type_share)
                       => /\ B[j][kind].scale = IF B[j][kind].type_share > 0 THEN 0 ELSE Unit
                          /\ \A m \in B[j].members :
                                 (B[j][kind].scale * employment_log.before[m].production_scale)
                                     \div Unit = 0

\* C26 witness: three buckets; the first is fully covered, the second only in part,
\* the third has a positive share, gets scale 0 and its fully staffed factory loses
\* primary workers
C26_Witness ==
    /\ Served
    /\ Len(employment_log.buckets) = 3
    /\ LET B == employment_log.buckets
       IN  /\ B[1].primary.scale = Unit /\ B[1].primary.type_share > 0
           /\ B[2].primary.scale > 0 /\ B[2].primary.scale < Unit
           /\ B[3].primary.type_share > 0 /\ B[3].primary.scale = 0
           /\ ~B[3].profitable
           /\ \E m \in B[3].members :
                  /\ employment_log.before[m].primary_employment = Unit
                  /\ state_factories[m].primary_employment = 999

-----------------------------------------------------------------------------
(* The factories of one state and its factory projects: how many there are,    *)
(* under the operations that build, finish and remove them.                    *)

FactoryTypes == 1 .. 4

\* state.defines.factories_per_state, scaled down to the number of types
count_defines == [factories_per_state |-> 2]

NoProjects == [t \in FactoryTypes |-> "none"]

FactoriesStanding(standing) == SumOver(FactoryTypes, LAMBDA t : standing[t])

\* int32_t state_factory_count(state, sid, n), before its assertion
state_factory_count ==
    FactoriesStanding(state_factory_types)
    + Cardinality({t \in FactoryTypes : state_building_construction[t] = "new"})

\* void add_factory_level_to_state(state, s, t, is_upgrade), counting factories
\* only: an upgrade raises the level of the factory of type t if the state has
\* one, everything else sets up a new factory
AddFactoryLevel(standing, t, is_upgrade) ==
    IF is_upgrade /\ standing[t] > 0 THEN standing
    ELSE [standing EXCEPT ![t] = @ + 1]

\* void try_add_factory_to_state(state, s, t)
try_add_factory_to_state(t) ==
    /\ LET num_factories == state_factory_count
       IN  state_factory_types' =
               IF state_building_construction[t] # "none" THEN state_factory_types
               ELSE IF state_factory_types[t] > 0 THEN state_factory_types
               ELSE IF num_factories < count_defines.factories_per_state
                    THEN AddFactoryLevel(state_factory_types, t, FALSE)
                    ELSE state_factory_types
    /\ count_log' = [op |-> "try_add", type |-> t, dangling |-> FALSE]
    /\ UNCHANGED <<state_building_construction, notCount>>

\* the private investment of daily_update in the state: target is the factory
\* picked for an upgrade (0 for none), affordable tells whether the investment
\* pool covers another project, selected is the type drawn from desired_types
\* (0 when there is none or the rules forbid building)
PrivateInvestment(target, affordable, selected) ==
    /\ target # 0 => state_factory_types[target] > 0
                     /\ state_building_construction[target] = "none"
    /\ LET num_factories == FactoriesStanding(state_factory_types)
           upgraded == IF target # 0
                       THEN [state_building_construction EXCEPT ![target] = "upgrade"]
                       ELSE state_building_construction
       IN  state_building_construction' =
               IF upgraded # NoProjects THEN upgraded
               ELSE IF ~affordable THEN upgraded
               ELSE IF /\ num_factories < count_defines.factories_per_state
                       /\ selected # 0
                       /\ upgraded[selected] = "none"
                       /\ state_factory_types[selected] = 0
                    THEN [upgraded EXCEPT ![selected] = "new"]
                    ELSE upgraded
    /\ count_log' = [op |-> "invest", type |-> target, dangling |-> FALSE]
    /\ UNCHANGED <<state_factory_types, notCount>>

\* resolve_constructions for the finished factory project of type t
ResolveFactoryProject(t) ==
    /\ state_building_construction[t] # "none"
    /\ state_factory_types' =
           AddFactoryLevel(state_factory_types, t, state_building_construction[t] = "upgrade")
    /\ state_building_construction' = [state_building_construction EXCEPT ![t] = "none"]
    /\ count_log' = [op |-> "resolve", type |-> t,
                     dangling |-> state_building_construction[t] = "upgrade"
                                  /\ state_factory_types[t] = 0]
    /\ UNCHANGED notCount

\* void prune_factories(state), for the state: deletion_choice is an unprofitable
\* factory run down below ten workers
prune_factories(deletion_choice) ==
    /\ state_factory_types[deletion_choice] > 0
    /\ 4 + FactoriesStanding(state_factory_types) >= count_defines.factories_per_state
    /\ state_factory_types' = [state_factory_types EXCEPT ![deletion_choice] = @ - 1]
    /\ state_building_construction' =
           [state_building_construction EXCEPT ![deletion_choice] = "none"]
    /\ count_log' = [op |-> "prune", type |-> deletion_choice, dangling |-> FALSE]
    /\ UNCHANGED notCount

\* explicit removal of a factory by its owner
RemoveFactory(t) ==
    /\ state_factory_types[t] > 0
    /\ state_factory_types' = [state_factory_types EXCEPT ![t] = @ - 1]
    /\ count_log' = [op |-> "remove", type |-> t, dangling |-> FALSE]
    /\ UNCHANGED <<state_building_construction, notCount>>

\* a state without factories and without projects
CountInit ==
    /\ PriceParked
    /\ MarketParked
    /\ FiscalParked
    /\ RgoParked
    /\ FactoryParked
    /\ ParallelParked
    /\ ConstructionParked
    /\ TreasuryParked
    /\ ConsumptionParked
    /\ EmploymentParked
    /\ global_market_pool = [c \in Commodities |-> 0]
    /\ real_demand = [n \in Nations |-> [c \in Commodities |-> 0]]
    /\ domestic_market_pool = [n \in Nations |-> [c \in Commodities |-> 0]]
    /\ demand_satisfaction = [n \in Nations |-> [c \in Commodities |-> Unit]]
    /\ state_factory_types = [t \in FactoryTypes |-> 0]
    /\ state_building_construction = NoProjects
    /\ count_log = [op |-> "none", type |-> 0, dangling |-> FALSE]

CountNext ==
    \/ \E t \in FactoryTypes : try_add_factory_to_state(t)
    \/ \E target \in FactoryTypes \cup {0}, affordable \in BOOLEAN,
          selected \in FactoryTypes \cup {0} : PrivateInvestment(target, affordable, selected)
    \/ \E t \in FactoryTypes : ResolveFactoryProject(t)
    \/ \E t \in FactoryTypes : prune_factories(t)
    \/ \E t \in FactoryTypes : RemoveFactory(t)

SpecCount == CountInit /\ [][CountNext]_vars

C30_Failing ==
    /\ count_log.op = "resolve"
    /\ count_log.dangling
    /\ state_factory_count = count_defines.factories_per_state + 1

====
